---- MODULE Spec2Model ----
(***************************************************************************)
(* Wellbeing Copilot backend (FastAPI + SQLAlchemy).                       *)
(*                                                                         *)
(* The module models                                                       *)
(*   - the relational store behind the ORM session (one set of rows per    *)
(*     table, "db") and the route handlers that read and write it,         *)
(*   - the HTTP middleware stack assembled in main.py (rate limiter,       *)
(*     security headers, request logging),                                 *)
(*   - the scoring formulas (health score, burnout risk, productivity      *)
(*     score, financial health score).                                     *)
(*                                                                         *)
(* Conventions                                                             *)
(*   - Python None / SQL NULL is the empty tuple None; a present value v   *)
(*     of an optional field or nullable column is the one-tuple <<v>>.     *)
(*   - Money, hours and scores are fixed-point integers: amounts are whole *)
(*     currency units, scores are carried in hundredths of a point         *)
(*     (the code rounds every reported score to two decimals).             *)
(*   - Dates are day numbers; "now" is the day of the request.             *)
(***************************************************************************)
EXTENDS Integers, Sequences, FiniteSets, TLC

VARIABLES
    db,          \* table name -> set of rows (the committed database)
    now,         \* datetime.now() / utcnow(), in days
    resp,        \* the response to the last request handled by a route
    requests,    \* RateLimitMiddleware.requests: ip -> list of timestamps
    clock,       \* time.time(), in seconds
    passed,      \* history: ip -> timestamps of requests handed to the app
    http,        \* the last HTTP response as it leaves the middleware stack
    calc,        \* inputs and result of the last pure score computation
    pending      \* requests between their first query and their commit

vars == <<db, now, resp, requests, clock, passed, http, calc, pending>>

----------------------------------------------------------------------------
(* Bounds of the model                                                     *)

MaxRecords == 2        \* rows in the database (specification Spec)
StartDay == 100        \* the day number of the first request
MaxPreferencesId == 3  \* highest primary key handed out in user_preferences

----------------------------------------------------------------------------
(* Generic helpers                                                         *)

None == <<>>

IsNone(v) == v = <<>>

Users == {1, 2}

Tables ==
    {"transactions", "budgets", "investments", "debts", "financial_goals",
     "tasks", "goals", "deep_work_sessions", "distractions", "biometrics",
     "sleep_records", "work_sessions", "boundaries", "user_preferences",
     "meals", "notification_logs"}

EmptyDb == [t \in Tables |-> {}]

TotalRows(d) == Cardinality(UNION {{<<t, r.id>> : r \in d[t]} : t \in Tables})

Max(S) == CHOOSE x \in S : \A y \in S : y <= x

Min2(a, b) == IF a <= b THEN a ELSE b

Max2(a, b) == IF a >= b THEN a ELSE b

RECURSIVE SumOver(_, _)
(* sum(r[f] for r in rows), rows a set of rows with an integer field f *)
SumOver(rows, f) ==
    IF rows = {} THEN 0
    ELSE LET r == CHOOSE x \in rows : TRUE
         IN  r[f] + SumOver(rows \ {r}, f)

RECURSIVE OrderByDesc(_, _)
(* query.order_by(col.desc()).all(): rows by descending col; rows with     *)
(* equal col come out in primary-key order                                 *)
OrderByDesc(rows, col) ==
    IF rows = {} THEN <<>>
    ELSE LET r == CHOOSE x \in rows :
                    \A y \in rows : \/ x[col] > y[col]
                                    \/ x[col] = y[col] /\ x.id <= y.id
         IN  <<r>> \o OrderByDesc(rows \ {r}, col)

(* query.offset(skip).limit(limit) on an ordered result                    *)
OffsetLimit(s, skip, limit) ==
    SubSeq(s, skip + 1, Min2(Len(s), skip + limit))

Range(s) == {s[i] : i \in DOMAIN s}

----------------------------------------------------------------------------
(* models/financial.py, models/productivity.py: enumerations               *)

TransactionType == {"income", "expense", "transfer"}

TransactionCategory ==
    {"salary", "freelance", "investment_income", "other_income", "housing",
     "transportation", "food", "utilities", "healthcare", "entertainment",
     "shopping", "education", "debt_payment", "savings", "other_expense"}

TaskStatus == {"todo", "in_progress", "blocked", "completed", "cancelled"}

(* Columns declared without nullable=False: a row may hold None there.     *)
NullableColumns ==
    [t \in Tables |->
        CASE t = "transactions"    -> {}
          [] t = "budgets"         -> {"is_active"}
          [] t = "investments"     -> {"current_price"}
          [] t = "debts"           -> {"is_active"}
          [] t = "financial_goals" -> {"current_amount", "is_completed"}
          [] t = "tasks"           -> {"completed_at"}
          [] t = "goals"           -> {"is_completed"}
          [] t = "boundaries"      -> {"is_active"}
          [] OTHER                 -> {}]

(* Primary key of the next inserted row: SQLite INTEGER PRIMARY KEY hands  *)
(* out max(rowid) + 1.                                                     *)
NextId(rows) == IF rows = {} THEN 1 ELSE Max({r.id : r \in rows}) + 1

----------------------------------------------------------------------------
(* core/errors.py: the status each registered handler answers with         *)

(* a handler that loses the exception's status                             *)
http_exception_handler_Lost(status_code) == 500

http_exception_handler(status_code) == status_code

(* a handler answering 400 Bad Request                                     *)
validation_exception_handler_BadRequest == http_exception_handler(400)

validation_exception_handler == 422

sqlalchemy_exception_handler(is_integrity_error) ==
    IF is_integrity_error THEN 409 ELSE 500

general_exception_handler == 500

----------------------------------------------------------------------------
(* Request bodies.  A body is a record; an optional field that the client  *)
(* sent carries <<v>> or None (JSON null), a field the client left out is  *)
(* not in the record's domain (model_dump(exclude_unset=True)).            *)

Has(b, f) == f \in DOMAIN b

(* Optional[...] = Field(None, gt=0) and friends                           *)
OptGt0(b, f) == Has(b, f) => (IsNone(b[f]) \/ b[f][1] > 0)

OptGe0(b, f) == Has(b, f) => (IsNone(b[f]) \/ b[f][1] >= 0)

OptIn(b, f, S) == Has(b, f) => (IsNone(b[f]) \/ b[f][1] \in S)

TransactionCreate(b) ==
    /\ b.transaction_type \in TransactionType
    /\ b.category \in TransactionCategory
    /\ b.amount > 0

TransactionUpdate(b) ==
    /\ OptIn(b, "transaction_type", TransactionType)
    /\ OptIn(b, "category", TransactionCategory)
    /\ OptGt0(b, "amount")

BudgetCreate(b) ==
    /\ b.category \in TransactionCategory
    /\ b.amount_limit > 0

BudgetUpdate(b) == OptGt0(b, "amount_limit")

InvestmentCreate(b) ==
    /\ b.quantity > 0
    /\ b.purchase_price > 0
    /\ IsNone(b.current_price) \/ b.current_price[1] > 0

InvestmentUpdate(b) == OptGt0(b, "quantity") /\ OptGt0(b, "current_price")

DebtCreate(b) == b.current_balance >= 0

DebtUpdate(b) == OptGe0(b, "current_balance")

FinancialGoalCreate(b) == b.target_amount > 0 /\ b.current_amount >= 0

FinancialGoalUpdate(b) ==
    OptGt0(b, "target_amount") /\ OptGe0(b, "current_amount")

TaskCreate(b) == b.status \in TaskStatus

TaskUpdate(b) == OptIn(b, "status", TaskStatus)

GoalCreate(b) == TRUE

GoalUpdate(b) == TRUE

----------------------------------------------------------------------------
(* The shape every route handler in api/endpoints follows                  *)

Response(op, u, t, id, req, status, body) ==
    [op |-> op, user |-> u, table |-> t, id |-> id, req |-> req,
     status |-> status, body |-> body]

NoResponse == Response("none", 0, "none", 0, None, 0, None)

(* columns the response schema declares as plain int or float: a row with  *)
(* None there fails response validation after the handler has returned     *)
ResponseRequired(t) ==
    CASE t = "budgets"         -> {"is_active"}
      [] t = "debts"           -> {"is_active"}
      [] t = "financial_goals" -> {"current_amount", "is_completed"}
      [] t = "goals"           -> {"is_completed"}
      [] t = "boundaries"      -> {"is_active"}
      [] OTHER                 -> {}

Serializable(t, row) ==
    \A f \in ResponseRequired(t) \cap DOMAIN row : ~IsNone(row[f])

(* response_model=...Response: one row                                     *)
RowResponse(op, u, t, id, req, status, row) ==
    IF Serializable(t, row)
    THEN Response(op, u, t, id, req, status, row)
    ELSE Response(op, u, t, id, req, general_exception_handler, None)

(* response_model=List[...Response]: rows in order                         *)
ListResponse(op, u, t, rows) ==
    IF \A i \in DOMAIN rows : Serializable(t, rows[i])
    THEN Response(op, u, t, 0, None, 200, rows)
    ELSE Response(op, u, t, 0, None, general_exception_handler, None)

(* RequestValidationError: raised by the framework before the handler runs *)
Invalid(op, u, t, id, req) ==
    /\ resp' = Response(op, u, t, id, req, validation_exception_handler,
                        None)
    /\ UNCHANGED db

(* raise HTTPException(status_code=...)                                    *)
Raise(op, u, t, id, req, status_code) ==
    /\ resp' = Response(op, u, t, id, req,
                        http_exception_handler(status_code), None)
    /\ UNCHANGED db

(* the lookup without the user_id filter                                   *)
Owned_AnyUser(t, u, id) == {r \in db[t] : r.id = id}

(* db.query(Model).filter(Model.id == id, Model.user_id == user).first()   *)
Owned(t, u, id) == {r \in db[t] : r.id = id /\ r.user_id = u}

(* an insert that takes the owner from a fixed account                     *)
Insert_FixedOwner(op, u, t, req, row, status) ==
    LET new == [id |-> NextId(db[t]), user_id |-> 1] @@ row
    IN  /\ db' = [db EXCEPT ![t] = @ \cup {new}]
        /\ resp' = Response(op, u, t, new.id, req, status, new)

(* row = Model(user_id=current_user.id, fields of the body); add; commit  *)
Insert(op, u, t, req, row, status) ==
    LET new == [id |-> NextId(db[t]), user_id |-> u] @@ row
    IN  /\ db' = [db EXCEPT ![t] = @ \cup {new}]
        /\ resp' = RowResponse(op, u, t, new.id, req, status, new)

GetById(op, u, t, id) ==
    IF Owned(t, u, id) = {}
    THEN Raise(op, u, t, id, None, 404)
    ELSE /\ resp' = RowResponse(op, u, t, id, None, 200,
                               CHOOSE r \in Owned(t, u, id) : TRUE)
         /\ UNCHANGED db

(* for field, value in update_data.items(): setattr(row, field, value)     *)
SetAttrs(t, row, b) ==
    [f \in DOMAIN row |->
        IF ~Has(b, f) THEN row[f]
        ELSE IF f \in NullableColumns[t] THEN b[f]
        ELSE IF IsNone(b[f]) THEN row[f]
        ELSE b[f][1]]

(* a None assigned to a nullable=False column fails the commit             *)
(* (IntegrityError), and the session is rolled back                        *)
ViolatesNotNull(t, row, b) ==
    \E f \in DOMAIN b \cap DOMAIN row :
        f \notin NullableColumns[t] /\ IsNone(b[f])

UpdateById(op, u, t, id, b) ==
    IF Owned(t, u, id) = {}
    THEN Raise(op, u, t, id, b, 404)
    ELSE LET old == CHOOSE r \in Owned(t, u, id) : TRUE
             new == SetAttrs(t, old, b)
         IN  IF ViolatesNotNull(t, old, b)
             THEN /\ resp' = Response(op, u, t, id, b,
                                      sqlalchemy_exception_handler(TRUE), None)
                  /\ UNCHANGED db
             ELSE /\ db' = [db EXCEPT ![t] = (@ \ {old}) \cup {new}]
                  /\ resp' = RowResponse(op, u, t, id, b, 200, new)

DeleteById(op, u, t, id) ==
    IF Owned(t, u, id) = {}
    THEN Raise(op, u, t, id, None, 404)
    ELSE /\ db' = [db EXCEPT ![t] = @ \ Owned(t, u, id)]
         /\ resp' = Response(op, u, t, id, None, 204, None)

(* the frame of every route handler                                        *)
RouteFrame == UNCHANGED <<now, requests, clock, passed, http, calc, pending>>

----------------------------------------------------------------------------
(* api/endpoints/financial.py: transactions                                *)

create_transaction(u, b) ==
    /\ IF ~TransactionCreate(b)
       THEN Invalid("create_transaction", u, "transactions", 0, b)
       ELSE Insert("create_transaction", u, "transactions", b,
                   [transaction_type |-> b.transaction_type,
                    category |-> b.category,
                    amount |-> b.amount,
                    transaction_date |-> b.transaction_date], 201)
    /\ RouteFrame

(* The optional filters are None when the query string leaves them out.    *)
get_transactions(u, skip, limit, transaction_type, category, start_date, end_date, min_amount, max_amount) ==
    LET query == {r \in db.transactions :
                    /\ r.user_id = u
                    /\ IsNone(transaction_type)
                         \/ r.transaction_type = transaction_type[1]
                    /\ IsNone(category) \/ r.category = category[1]
                    /\ IsNone(start_date) \/ r.transaction_date >= start_date[1]
                    /\ IsNone(end_date) \/ r.transaction_date <= end_date[1]
                    /\ IsNone(min_amount) \/ r.amount >= min_amount[1]
                    /\ IsNone(max_amount) \/ r.amount <= max_amount[1]}
    IN  /\ resp' = ListResponse("get_transactions", u, "transactions",
                     OffsetLimit(OrderByDesc(query, "transaction_date"),
                                 skip, limit))
        /\ UNCHANGED db
        /\ RouteFrame

get_transaction(u, id) ==
    GetById("get_transaction", u, "transactions", id) /\ RouteFrame

update_transaction(u, id, b) ==
    /\ IF ~TransactionUpdate(b)
       THEN Invalid("update_transaction", u, "transactions", id, b)
       ELSE UpdateById("update_transaction", u, "transactions", id, b)
    /\ RouteFrame

delete_transaction(u, id) ==
    DeleteById("delete_transaction", u, "transactions", id) /\ RouteFrame

(* api/endpoints/financial.py: budgets                                     *)

(* a check that counts every budget of the category, active or not         *)
create_budget_AnyBudget(u, b) ==
    /\ IF ~BudgetCreate(b)
       THEN Invalid("create_budget", u, "budgets", 0, b)
       ELSE IF \E r \in db.budgets : r.user_id = u /\ r.category = b.category
       THEN Raise("create_budget", u, "budgets", 0, b, 400)
       ELSE Insert("create_budget", u, "budgets", b,
                   [category |-> b.category,
                    amount_limit |-> b.amount_limit,
                    is_active |-> <<1>>], 201)
    /\ RouteFrame

create_budget(u, b) ==
    /\ IF ~BudgetCreate(b)
       THEN Invalid("create_budget", u, "budgets", 0, b)
       ELSE IF \E r \in db.budgets : /\ r.user_id = u
                                     /\ r.category = b.category
                                     /\ r.is_active = <<1>>
       THEN Raise("create_budget", u, "budgets", 0, b, 400)
       ELSE Insert("create_budget", u, "budgets", b,
                   [category |-> b.category,
                    amount_limit |-> b.amount_limit,
                    is_active |-> <<1>>], 201)
    /\ RouteFrame

(* Rows are created in primary-key order, so created_at.desc() is id.desc() *)
get_budgets(u, active_only) ==
    LET query == {r \in db.budgets :
                    r.user_id = u /\ (active_only => r.is_active = <<1>>)}
    IN  /\ resp' = ListResponse("get_budgets", u, "budgets",
                            OrderByDesc(query, "id"))
        /\ UNCHANGED db
        /\ RouteFrame

get_budget(u, id) == GetById("get_budget", u, "budgets", id) /\ RouteFrame

update_budget(u, id, b) ==
    /\ IF ~BudgetUpdate(b)
       THEN Invalid("update_budget", u, "budgets", id, b)
       ELSE UpdateById("update_budget", u, "budgets", id, b)
    /\ RouteFrame

delete_budget(u, id) ==
    DeleteById("delete_budget", u, "budgets", id) /\ RouteFrame

(* api/endpoints/financial.py: investments                                 *)

create_investment(u, b) ==
    /\ IF ~InvestmentCreate(b)
       THEN Invalid("create_investment", u, "investments", 0, b)
       ELSE Insert("create_investment", u, "investments", b,
                   [quantity |-> b.quantity,
                    purchase_price |-> b.purchase_price,
                    current_price |-> b.current_price], 201)
    /\ RouteFrame

get_investments(u) ==
    /\ resp' = ListResponse("get_investments", u, "investments",
                 OrderByDesc({r \in db.investments : r.user_id = u}, "id"))
    /\ UNCHANGED db
    /\ RouteFrame

get_investment(u, id) ==
    GetById("get_investment", u, "investments", id) /\ RouteFrame

update_investment(u, id, b) ==
    /\ IF ~InvestmentUpdate(b)
       THEN Invalid("update_investment", u, "investments", id, b)
       ELSE UpdateById("update_investment", u, "investments", id, b)
    /\ RouteFrame

delete_investment(u, id) ==
    DeleteById("delete_investment", u, "investments", id) /\ RouteFrame

(* api/endpoints/financial.py: debts                                       *)

create_debt(u, b) ==
    /\ IF ~DebtCreate(b)
       THEN Invalid("create_debt", u, "debts", 0, b)
       ELSE Insert("create_debt", u, "debts", b,
                   [current_balance |-> b.current_balance,
                    is_active |-> <<1>>], 201)
    /\ RouteFrame

get_debts(u, active_only) ==
    LET query == {r \in db.debts :
                    r.user_id = u /\ (active_only => r.is_active = <<1>>)}
    IN  /\ resp' = ListResponse("get_debts", u, "debts",
                            OrderByDesc(query, "id"))
        /\ UNCHANGED db
        /\ RouteFrame

get_debt(u, id) == GetById("get_debt", u, "debts", id) /\ RouteFrame

update_debt(u, id, b) ==
    /\ IF ~DebtUpdate(b)
       THEN Invalid("update_debt", u, "debts", id, b)
       ELSE UpdateById("update_debt", u, "debts", id, b)
    /\ RouteFrame

delete_debt(u, id) == DeleteById("delete_debt", u, "debts", id) /\ RouteFrame

(* api/endpoints/financial.py: financial goals (create_goal ... delete_goal) *)

financial_create_goal(u, b) ==
    /\ IF ~FinancialGoalCreate(b)
       THEN Invalid("financial_create_goal", u, "financial_goals", 0, b)
       ELSE Insert("financial_create_goal", u, "financial_goals", b,
                   [title |-> b.title,
                    target_amount |-> b.target_amount,
                    current_amount |-> <<b.current_amount>>,
                    is_completed |-> <<0>>], 201)
    /\ RouteFrame

financial_get_goals(u, active_only) ==
    LET query == {r \in db.financial_goals :
                    r.user_id = u /\ (active_only => r.is_completed = <<0>>)}
    IN  /\ resp' = ListResponse("financial_get_goals", u, "financial_goals", OrderByDesc(query, "id"))
        /\ UNCHANGED db
        /\ RouteFrame

financial_get_goal(u, id) ==
    GetById("financial_get_goal", u, "financial_goals", id) /\ RouteFrame

financial_update_goal(u, id, b) ==
    /\ IF ~FinancialGoalUpdate(b)
       THEN Invalid("financial_update_goal", u, "financial_goals", id, b)
       ELSE UpdateById("financial_update_goal", u, "financial_goals", id, b)
    /\ RouteFrame

financial_delete_goal(u, id) ==
    DeleteById("financial_delete_goal", u, "financial_goals", id) /\ RouteFrame

----------------------------------------------------------------------------
(* api/endpoints/productivity.py: tasks                                    *)

create_task(u, b) ==
    /\ IF ~TaskCreate(b)
       THEN Invalid("create_task", u, "tasks", 0, b)
       ELSE Insert("create_task", u, "tasks", b,
                   [status |-> b.status,
                    completed_at |-> None,
                    created_at |-> now], 201)
    /\ RouteFrame

(* skip: Query(ge=0), limit: Query(ge=1, le=1000)                          *)
get_tasks(u, skip, limit, status) ==
    /\ IF skip < 0 \/ limit < 1 \/ limit > 1000
       THEN Invalid("get_tasks", u, "tasks", 0,
                    [skip |-> skip, limit |-> limit])
       ELSE LET query == {r \in db.tasks :
                            /\ r.user_id = u
                            /\ IsNone(status) \/ r.status = status[1]}
            IN  /\ resp' = ListResponse("get_tasks", u, "tasks",
                             OffsetLimit(OrderByDesc(query, "created_at"),
                                         skip, limit))
                /\ UNCHANGED db
    /\ RouteFrame

get_task(u, id) == GetById("get_task", u, "tasks", id) /\ RouteFrame

(* status COMPLETED with completed_at unset stamps completed_at            *)
update_task(u, id, b) ==
    /\ IF ~TaskUpdate(b)
       THEN Invalid("update_task", u, "tasks", id, b)
       ELSE LET stamp ==
                    /\ Has(b, "status")
                    /\ b.status = <<"completed">>
                    /\ \E r \in Owned("tasks", u, id) : IsNone(r.completed_at)
                update_data ==
                    IF stamp THEN b @@ [completed_at |-> <<now>>] ELSE b
            IN  UpdateById("update_task", u, "tasks", id, update_data)
    /\ RouteFrame

delete_task(u, id) == DeleteById("delete_task", u, "tasks", id) /\ RouteFrame

----------------------------------------------------------------------------
(* api/endpoints/wellbeing.py: goals (create_goal ... delete_goal)         *)

wellbeing_create_goal(u, b) ==
    /\ IF ~GoalCreate(b)
       THEN Invalid("wellbeing_create_goal", u, "goals", 0, b)
       ELSE Insert("wellbeing_create_goal", u, "goals", b,
                   [title |-> b.title, is_completed |-> <<0>>], 201)
    /\ RouteFrame

wellbeing_get_goals(u) ==
    /\ resp' = ListResponse("wellbeing_get_goals", u, "goals",
                        OrderByDesc({r \in db.goals : r.user_id = u}, "id"))
    /\ UNCHANGED db
    /\ RouteFrame

wellbeing_update_goal(u, id, b) ==
    /\ IF ~GoalUpdate(b)
       THEN Invalid("wellbeing_update_goal", u, "goals", id, b)
       ELSE UpdateById("wellbeing_update_goal", u, "goals", id, b)
    /\ RouteFrame

wellbeing_delete_goal(u, id) ==
    DeleteById("wellbeing_delete_goal", u, "goals", id) /\ RouteFrame

----------------------------------------------------------------------------
(* Initial state: an empty database, a fresh middleware instance           *)

IPs == {"10.0.0.1", "10.0.0.2"}

NoHttp == [ip |-> "none", path |-> "none", status |-> 0, headers |-> {},
           reached_app |-> FALSE, time |-> 0]

NoCalc == [fn |-> "none"]

(* two requests are handled at the same time                               *)
Slots == {1, 2}

NoPending == [s \in Slots |-> None]

Init ==
    /\ db = EmptyDb
    /\ now = StartDay
    /\ resp = NoResponse
    /\ requests = [ip \in {} |-> <<>>]
    /\ clock = 0
    /\ passed = [ip \in IPs |-> <<>>]
    /\ http = NoHttp
    /\ calc = NoCalc
    /\ pending = NoPending

----------------------------------------------------------------------------
(* Specification Spec: two users issue create / list / get / update /      *)
(* delete requests for the seven record kinds, with valid and invalid      *)
(* bodies and query parameters.                                            *)

Ids == 1 .. (MaxRecords + 1)

TransactionBodies ==
    {[transaction_type |-> "expense", category |-> "food", amount |-> 40,
      transaction_date |-> 95],
     [transaction_type |-> "income", category |-> "salary", amount |-> 0,
      transaction_date |-> 95]}

TransactionUpdates ==
    {[amount |-> <<60>>], [amount |-> <<0>>], [category |-> None]}

BudgetBodies ==
    {[category |-> "food", amount_limit |-> 100],
     [category |-> "food", amount_limit |-> 0]}

BudgetUpdates == {[is_active |-> <<0>>], [amount_limit |-> <<-1>>]}

InvestmentBodies ==
    {[quantity |-> 2, purchase_price |-> 10, current_price |-> None],
     [quantity |-> 0, purchase_price |-> 10, current_price |-> None]}

InvestmentUpdates == {[current_price |-> <<12>>], [quantity |-> <<0>>]}

DebtBodies == {[current_balance |-> 500], [current_balance |-> -1]}

DebtUpdates == {[is_active |-> <<0>>], [current_balance |-> <<-1>>]}

FinancialGoalBodies ==
    {[title |-> "Emergency fund", target_amount |-> 100, current_amount |-> 50],
     [title |-> "Vacation", target_amount |-> 0, current_amount |-> 0]}

FinancialGoalUpdates ==
    {[current_amount |-> <<100>>], [target_amount |-> <<0>>]}

TaskBodies == {[status |-> "todo"], [status |-> "done"]}

TaskUpdates == {[status |-> <<"completed">>], [status |-> <<"done">>]}

GoalBodies == {[title |-> "Sleep more"]}

GoalUpdates == {[is_completed |-> <<1>>]}

NoFilter ==
    [skip |-> 0, limit |-> 100, transaction_type |-> None, category |-> None,
     start_date |-> None, end_date |-> None, min_amount |-> None,
     max_amount |-> None]

TransactionFilters ==
    {NoFilter,
     [NoFilter EXCEPT !.skip = 1],
     [NoFilter EXCEPT !.limit = 1],
     [NoFilter EXCEPT !.transaction_type = <<"expense">>,
                      !.category = <<"food">>],
     [NoFilter EXCEPT !.start_date = <<96>>],
     [NoFilter EXCEPT !.end_date = <<94>>],
     [NoFilter EXCEPT !.min_amount = <<50>>],
     [NoFilter EXCEPT !.max_amount = <<50>>]}

TaskFilters ==
    {[skip |-> 0, limit |-> 100, status |-> None],
     [skip |-> 0, limit |-> 100, status |-> <<"completed">>],
     [skip |-> 1, limit |-> 1, status |-> None],
     [skip |-> -1, limit |-> 100, status |-> None],
     [skip |-> 0, limit |-> 0, status |-> None]}

(* Each run works on one record kind: requests go to the table that holds  *)
(* rows (to any table while the database is empty), and the database holds *)
(* at most MaxRecords rows.                                                *)
InUse(t) == \A t2 \in Tables \ {t} : db[t2] = {}

Create ==
    /\ TotalRows(db) < MaxRecords
    /\ \E u \in Users :
        \/ /\ InUse("transactions")
           /\ \E b \in TransactionBodies : create_transaction(u, b)
        \/ /\ InUse("budgets")
           /\ \E b \in BudgetBodies : create_budget(u, b)
        \/ /\ InUse("investments")
           /\ \E b \in InvestmentBodies : create_investment(u, b)
        \/ /\ InUse("debts")
           /\ \E b \in DebtBodies : create_debt(u, b)
        \/ /\ InUse("financial_goals")
           /\ \E b \in FinancialGoalBodies : financial_create_goal(u, b)
        \/ /\ InUse("tasks")
           /\ \E b \in TaskBodies : create_task(u, b)
        \/ /\ InUse("goals")
           /\ \E b \in GoalBodies : wellbeing_create_goal(u, b)

List ==
    \E u \in Users :
        \/ /\ InUse("transactions")
           /\ \E f \in TransactionFilters :
                get_transactions(u, f.skip, f.limit, f.transaction_type,
                                 f.category, f.start_date, f.end_date,
                                 f.min_amount, f.max_amount)
        \/ InUse("budgets") /\ \E a \in BOOLEAN : get_budgets(u, a)
        \/ InUse("investments") /\ get_investments(u)
        \/ InUse("debts") /\ \E a \in BOOLEAN : get_debts(u, a)
        \/ InUse("financial_goals") /\ \E a \in BOOLEAN : financial_get_goals(u, a)
        \/ /\ InUse("tasks")
           /\ \E f \in TaskFilters : get_tasks(u, f.skip, f.limit, f.status)
        \/ InUse("goals") /\ wellbeing_get_goals(u)

Get ==
    \E u \in Users, id \in Ids :
        \/ InUse("transactions") /\ get_transaction(u, id)
        \/ InUse("budgets") /\ get_budget(u, id)
        \/ InUse("investments") /\ get_investment(u, id)
        \/ InUse("debts") /\ get_debt(u, id)
        \/ InUse("financial_goals") /\ financial_get_goal(u, id)
        \/ InUse("tasks") /\ get_task(u, id)

Update ==
    \E u \in Users, id \in Ids :
        \/ /\ InUse("transactions")
           /\ \E b \in TransactionUpdates : update_transaction(u, id, b)
        \/ /\ InUse("budgets")
           /\ \E b \in BudgetUpdates : update_budget(u, id, b)
        \/ /\ InUse("investments")
           /\ \E b \in InvestmentUpdates : update_investment(u, id, b)
        \/ /\ InUse("debts")
           /\ \E b \in DebtUpdates : update_debt(u, id, b)
        \/ /\ InUse("financial_goals")
           /\ \E b \in FinancialGoalUpdates : financial_update_goal(u, id, b)
        \/ /\ InUse("tasks")
           /\ \E b \in TaskUpdates : update_task(u, id, b)
        \/ /\ InUse("goals")
           /\ \E b \in GoalUpdates : wellbeing_update_goal(u, id, b)

Delete ==
    \E u \in Users, id \in Ids :
        \/ InUse("transactions") /\ delete_transaction(u, id)
        \/ InUse("budgets") /\ delete_budget(u, id)
        \/ InUse("investments") /\ delete_investment(u, id)
        \/ InUse("debts") /\ delete_debt(u, id)
        \/ InUse("financial_goals") /\ financial_delete_goal(u, id)
        \/ InUse("tasks") /\ delete_task(u, id)
        \/ InUse("goals") /\ wellbeing_delete_goal(u, id)

Next == Create \/ List \/ Get \/ Update \/ Delete

Spec == Init /\ [][Next]_vars

----------------------------------------------------------------------------
(* Vocabulary of the claims about the route handlers                       *)

GetOps ==
    {"get_transaction", "get_budget", "get_investment", "get_debt",
     "financial_get_goal", "get_task"}

UpdateOps ==
    {"update_transaction", "update_budget", "update_investment",
     "update_debt", "financial_update_goal", "update_task",
     "wellbeing_update_goal"}

DeleteOps ==
    {"delete_transaction", "delete_budget", "delete_investment",
     "delete_debt", "financial_delete_goal", "delete_task",
     "wellbeing_delete_goal"}

ListOps ==
    {"get_transactions", "get_budgets", "get_investments", "get_debts",
     "financial_get_goals", "get_tasks", "wellbeing_get_goals"}

ByIdOps == GetOps \cup UpdateOps \cup DeleteOps

(* does the request recorded in response r pass request validation?        *)
PassesValidation(r) ==
    CASE r.op = "create_transaction"    -> TransactionCreate(r.req)
      [] r.op = "update_transaction"    -> TransactionUpdate(r.req)
      [] r.op = "create_budget"         -> BudgetCreate(r.req)
      [] r.op = "update_budget"         -> BudgetUpdate(r.req)
      [] r.op = "create_investment"     -> InvestmentCreate(r.req)
      [] r.op = "update_investment"     -> InvestmentUpdate(r.req)
      [] r.op = "create_debt"           -> DebtCreate(r.req)
      [] r.op = "update_debt"           -> DebtUpdate(r.req)
      [] r.op = "financial_create_goal" -> FinancialGoalCreate(r.req)
      [] r.op = "financial_update_goal" -> FinancialGoalUpdate(r.req)
      [] r.op = "create_task"           -> TaskCreate(r.req)
      [] r.op = "update_task"           -> TaskUpdate(r.req)
      [] r.op = "get_tasks" ->
            IsNone(r.req) \/ (r.req.skip >= 0 /\ r.req.limit \in 1 .. 1000)
      [] OTHER -> TRUE

(* the step handles a request (a repeated identical request that changes   *)
(* nothing is a stuttering step)                                           *)
Handled == resp' # resp

(* C1: a well-formed get, update or delete by id of a record owned by      *)
(* another user is answered 404 and leaves the database unchanged, and a   *)
(* list request returns only rows whose user_id is the requesting user's.  *)
C1_UserScoping ==
    [][/\ (/\ Handled
           /\ resp'.op \in ByIdOps
           /\ PassesValidation(resp')
           /\ \E r \in db[resp'.table] :
                r.id = resp'.id /\ r.user_id # resp'.user)
          => (resp'.status = 404 /\ db' = db)
       /\ (Handled /\ resp'.op \in ListOps /\ resp'.status = 200)
          => (/\ db' = db
              /\ \A r \in Range(resp'.body) :
                    r.user_id = resp'.user /\ r \in db[resp'.table])]_vars

(* C1 witness: a by-id request for another user's row was answered 404     *)
(* while both users hold rows in that table.                               *)
C1_Witness ==
    /\ resp.op \in ByIdOps
    /\ resp.status = 404
    /\ \E r \in db[resp.table] : r.id = resp.id /\ r.user_id # resp.user
    /\ \E r \in db[resp.table] : r.user_id = resp.user

(* C2: create_transaction with a valid payload is answered 201 and adds    *)
(* exactly one transaction, owned by the requester, whose fields equal the *)
(* payload; every row stored before is still there unchanged.              *)
C2_CreateTransaction ==
    [][(Handled /\ resp'.op = "create_transaction"
                /\ TransactionCreate(resp'.req))
       => /\ resp'.status = 201
          /\ \E r \in db'.transactions :
                /\ r \notin db.transactions
                /\ db'.transactions = db.transactions \cup {r}
                /\ r.user_id = resp'.user
                /\ \A q \in db.transactions : q.id # r.id
                /\ \A f \in DOMAIN resp'.req : r[f] = resp'.req[f]
                /\ resp'.body = r
          /\ \A t \in Tables \ {"transactions"} : db'[t] = db[t]]_vars

(* C2 witness: the second user's transaction was created next to an        *)
(* earlier one.                                                            *)
C2_Witness ==
    /\ resp.op = "create_transaction"
    /\ resp.status = 201
    /\ resp.user = 2
    /\ \E q \in db.transactions : q.id # resp.id /\ q.user_id = 1

(* C3: a well-formed get, update or delete by id for an id that no row of  *)
(* the requesting user has is answered 404, and the database is the same   *)
(* after the request as before.                                            *)
C3_NotFound ==
    [][(/\ Handled
        /\ resp'.op \in ByIdOps
        /\ PassesValidation(resp')
        /\ ~ \E r \in db[resp'.table] :
                r.id = resp'.id /\ r.user_id = resp'.user)
       => (resp'.status = 404 /\ db' = db)]_vars

(* C3 witness: the requester holds a row, asked for an id nobody holds,    *)
(* and was answered 404.                                                   *)
C3_Witness ==
    /\ resp.op \in ByIdOps
    /\ resp.status = 404
    /\ \E r \in db[resp.table] : r.user_id = resp.user
    /\ \A r \in db[resp.table] : r.id # resp.id

(* C4 as stated: a request that fails request validation is answered 400   *)
(* and changes no stored record.                                           *)
C4_Original ==
    [][(Handled /\ ~PassesValidation(resp'))
       => (resp'.status = 400 /\ db' = db)]_vars

(* C4 as amended: a request that fails request validation is answered 422  *)
(* (Unprocessable Entity) and changes no stored record.                    *)
C4_ValidationError ==
    [][(Handled /\ ~PassesValidation(resp'))
       => (resp'.status = 422 /\ db' = db)]_vars

(* C4 witness: an invalid request was answered 422 while rows are stored.  *)
C4_Witness ==
    /\ ~PassesValidation(resp)
    /\ resp.status = 422
    /\ TotalRows(db) > 0

----------------------------------------------------------------------------
(* core/security_middleware.py and main.py: the middleware stack           *)

MaxClock == 60      \* the clock runs from 0 to MaxClock seconds
TickSeconds == 60   \* seconds between two readings of the clock
MaxQuiet == 2       \* requests the quiet address gets through

(* the address that sends without limit                                    *)
Busy == "10.0.0.1"

Paths == {"/health", "/api/v1/financial/transactions"}

(* an exemption list that leaves the health check out                      *)
ExemptPaths_NoHealth == {"/", "/docs", "/openapi.json"}

(* RateLimitMiddleware.dispatch: paths that skip rate limiting             *)
ExemptPaths == {"/health", "/", "/docs", "/openapi.json"}

requests_per_minute == 60

SecurityHeaders ==
    {"X-Content-Type-Options", "X-Frame-Options", "X-XSS-Protection",
     "Strict-Transport-Security", "Referrer-Policy"}

RateLimitHeaders ==
    {"X-RateLimit-Limit", "X-RateLimit-Remaining", "X-RateLimit-Reset"}

(* Starlette's add_middleware inserts at the head of user_middleware, and  *)
(* the head of the list is the outermost layer of the built stack.         *)
add_middleware(stack, cls) == <<cls>> \o stack

user_middleware ==
    add_middleware(
        add_middleware(
            add_middleware(
                add_middleware(<<>>, "RequestLoggingMiddleware"),
                "SecurityHeadersMiddleware"),
            "RateLimitMiddleware"),
        "CORSMiddleware")

(* [t for t in self.requests[client_ip] if current_time - t < 60]          *)
Prune(ts, current_time) ==
    SelectSeq(ts, LAMBDA req_time : current_time - req_time < 60)

(* self.requests[client_ip], [] when the address is not yet a key          *)
RequestsOf(ip) == IF ip \in DOMAIN requests THEN requests[ip] ELSE <<>>

(* a check that lets one request too many through                          *)
RateLimitExceeded_OffByOne(ip, path) ==
    /\ path \notin ExemptPaths
    /\ Len(Prune(RequestsOf(ip), clock)) > requests_per_minute

(* the rate limit check of dispatch                                        *)
RateLimitExceeded(ip, path) ==
    /\ path \notin ExemptPaths
    /\ Len(Prune(RequestsOf(ip), clock)) >= requests_per_minute

(* a dispatch that appends the timestamp before it checks the limit        *)
RateLimitMiddleware_requests_Recording(ip, path) ==
    IF path \in ExemptPaths THEN requests
    ELSE LET pruned == Prune(RequestsOf(ip), clock)
         IN  [x \in (DOMAIN requests) \cup {ip} |->
                IF x = ip THEN Append(pruned, clock) ELSE requests[x]]

(* self.requests after dispatch has handled a request                      *)
RateLimitMiddleware_requests(ip, path) ==
    IF path \in ExemptPaths THEN requests
    ELSE LET pruned == Prune(RequestsOf(ip), clock)
             kept == IF RateLimitExceeded(ip, path)
                     THEN pruned
                     ELSE Append(pruned, clock)
         IN  [x \in (DOMAIN requests) \cup {ip} |->
                IF x = ip THEN kept ELSE requests[x]]

(* a response built by a middleware itself: it never reached the routes    *)
JSONResponse(status_code) ==
    [status |-> status_code, headers |-> {}, reached_app |-> FALSE]

(* the response of the routed application                                  *)
RouterResponse == [status |-> 200, headers |-> {}, reached_app |-> TRUE]

RECURSIVE call_next(_, _, _)
(* the response that layer i of the stack returns to the layer outside it  *)
call_next(i, ip, path) ==
    IF i > Len(user_middleware) THEN RouterResponse
    ELSE LET cls == user_middleware[i]
         IN  CASE cls = "RateLimitMiddleware" ->
                    IF path \in ExemptPaths THEN call_next(i + 1, ip, path)
                    ELSE IF RateLimitExceeded(ip, path) THEN JSONResponse(429)
                    ELSE [call_next(i + 1, ip, path) EXCEPT
                             !.headers = @ \cup RateLimitHeaders]
               [] cls = "SecurityHeadersMiddleware" ->
                    [call_next(i + 1, ip, path) EXCEPT
                         !.headers = @ \cup SecurityHeaders]
               [] cls = "RequestLoggingMiddleware" ->
                    [call_next(i + 1, ip, path) EXCEPT
                         !.headers = @ \cup {"X-Process-Time"}]
               [] OTHER -> call_next(i + 1, ip, path)

(* One HTTP request through the whole stack.  RateLimitMiddleware.dispatch *)
(* does not await between reading self.requests and appending to it, so    *)
(* the event loop runs that part of two requests one after the other.      *)
Request(ip, path) ==
    LET response == call_next(1, ip, path)
    IN  /\ requests' = RateLimitMiddleware_requests(ip, path)
        /\ http' = [status |-> response.status, ip |-> ip, path |-> path,
                    headers |-> response.headers,
                    reached_app |-> response.reached_app, time |-> clock]
        /\ passed' = IF response.reached_app /\ path \notin ExemptPaths
                     THEN [passed EXCEPT ![ip] = Append(@, clock)]
                     ELSE passed
        /\ UNCHANGED <<db, now, resp, clock, calc, pending>>

(* time.time() moves on                                                    *)
Tick ==
    /\ clock' = clock + TickSeconds
    /\ UNCHANGED <<db, now, resp, requests, passed, http, calc, pending>>

Send ==
    \E ip \in IPs, path \in Paths :
        /\ ip = Busy \/ Len(passed[ip]) < MaxQuiet
        /\ Request(ip, path)

Wait == clock + TickSeconds <= MaxClock /\ Tick

NextHttp == Send \/ Wait

SpecHttp == Init /\ [][NextHttp]_vars

(* requests of ip handed to the application in the 60 seconds ending at T  *)
PassedWithin(ip, T) ==
    Cardinality({i \in DOMAIN passed[ip] :
                    T - 60 < passed[ip][i] /\ passed[ip][i] <= T})

C6_SecurityHeaders ==
    http.path # "none" => SecurityHeaders \subseteq http.headers

----------------------------------------------------------------------------
(* services/health_calculations.py: HealthCalculator.calculate_health_score *)
(* Floats with two decimals are integers in hundredths: a BMI of 18.5 is   *)
(* 1850, 7.5 points are 750.  The "max" entries stay in whole points.      *)

(* Python truthiness of an optional number: None and 0 are false           *)
Truthy(v) == ~IsNone(v) /\ v[1] # 0

bmi_score(bmi) ==
    IF Truthy(bmi)
    THEN LET b == bmi[1]
         IN  IF 1850 <= b /\ b < 2500 THEN 2000
             ELSE IF (1700 <= b /\ b < 1850) \/ (2500 <= b /\ b < 2700)
                  THEN 1500
             ELSE IF (1600 <= b /\ b < 1700) \/ (2700 <= b /\ b < 3000)
                  THEN 1000
             ELSE 500
    ELSE 0

sleep_score(sleep_avg) ==
    IF Truthy(sleep_avg)
    THEN LET h == sleep_avg[1]
         IN  IF 700 <= h /\ h <= 900 THEN 2000
             ELSE IF (600 <= h /\ h < 700) \/ (900 < h /\ h <= 1000)
                  THEN 1500
             ELSE IF (500 <= h /\ h < 600) \/ (1000 < h /\ h <= 1100)
                  THEN 1000
             ELSE 500
    ELSE 0

exercise_score(exercise_days) ==
    IF ~IsNone(exercise_days)
    THEN LET n == exercise_days[1]
         IN  IF n >= 5 THEN 2500
             ELSE IF n >= 3 THEN 2000
             ELSE IF n >= 1 THEN 1500
             ELSE 500
    ELSE 0

(* round((nutrition_score / 100) * 20, 2): a fifth of the score, to the    *)
(* nearest hundredth (a fifth of an integer never lies on a tie)           *)
nutrition_points(nutrition_score) ==
    IF ~IsNone(nutrition_score)
    THEN (2 * nutrition_score[1] + 5) \div 10
    ELSE 0

(* vitals that give the blood pressure the whole 15 points                 *)
vitals_score_Double(blood_pressure_systolic, heart_rate) ==
    (IF Truthy(blood_pressure_systolic) THEN 1500 ELSE 0)
    + (IF Truthy(heart_rate) THEN 750 ELSE 0)

vitals_score(blood_pressure_systolic, heart_rate) ==
    (IF Truthy(blood_pressure_systolic)
     THEN LET p == blood_pressure_systolic[1]
          IN  IF 90 <= p /\ p <= 120 THEN 750
              ELSE IF 121 <= p /\ p <= 129 THEN 500
              ELSE 250
     ELSE 0)
    + (IF Truthy(heart_rate)
       THEN LET r == heart_rate[1]
            IN  IF 60 <= r /\ r <= 80 THEN 750
                ELSE IF (50 <= r /\ r < 60) \/ (80 < r /\ r <= 100) THEN 500
                ELSE 250
       ELSE 0)

Components == {"bmi", "sleep", "exercise", "nutrition", "vitals"}

calculate_health_score(bmi, sleep_avg, exercise_days, nutrition_score, blood_pressure_systolic, heart_rate) ==
    LET scores ==
            [bmi       |-> [score |-> bmi_score(bmi), max |-> 20],
             sleep     |-> [score |-> sleep_score(sleep_avg), max |-> 20],
             exercise  |-> [score |-> exercise_score(exercise_days),
                            max |-> 25],
             nutrition |-> [score |-> nutrition_points(nutrition_score),
                            max |-> 20],
             vitals    |-> [score |-> vitals_score(blood_pressure_systolic,
                                                   heart_rate),
                            max |-> 15]]
        total_score == scores.bmi.score + scores.sleep.score
                       + scores.exercise.score + scores.nutrition.score
                       + scores.vitals.score
        max_score == scores.bmi.max + scores.sleep.max + scores.exercise.max
                     + scores.nutrition.max + scores.vitals.max
        percentage == IF max_score > 0 THEN (total_score * 100) \div max_score
                      ELSE 0
    IN  [overall_score |-> total_score,
         max_score |-> max_score,
         percentage |-> percentage,
         grade |-> IF percentage >= 9000 THEN "A+"
                   ELSE IF percentage >= 8000 THEN "A"
                   ELSE IF percentage >= 7000 THEN "B"
                   ELSE IF percentage >= 6000 THEN "C"
                   ELSE IF percentage >= 5000 THEN "D"
                   ELSE "F",
         breakdown |-> scores]

Opt(S) == {None} \cup {<<v>> : v \in S}

InitHealthScore ==
    /\ db = EmptyDb /\ now = StartDay /\ resp = NoResponse
    /\ requests = <<>> /\ clock = 0 /\ passed = [ip \in IPs |-> <<>>]
    /\ http = NoHttp /\ pending = NoPending
    /\ \E bmi \in Opt({0, 1599, 1600, 1849, 1850, 2500, 2999, 3000}),
          sleep_avg \in Opt({0, 499, 500, 650, 700, 900, 1001, 1101}),
          exercise_days \in Opt({-1, 0, 1, 3, 5}),
          nutrition_score \in Opt({0, 1, 3333, 9999, 10000}),
          blood_pressure_systolic \in Opt({0, 89, 90, 121, 130}),
          heart_rate \in Opt({0, 49, 50, 60, 81, 101}) :
            calc = [fn |-> "calculate_health_score",
                    bmi |-> bmi, sleep_avg |-> sleep_avg,
                    exercise_days |-> exercise_days,
                    nutrition_score |-> nutrition_score,
                    blood_pressure_systolic |-> blood_pressure_systolic,
                    heart_rate |-> heart_rate,
                    result |-> None]

HealthScore ==
    /\ IsNone(calc.result)
    /\ calc' = [calc EXCEPT !.result =
                    <<calculate_health_score(calc.bmi, calc.sleep_avg,
                          calc.exercise_days, calc.nutrition_score,
                          calc.blood_pressure_systolic, calc.heart_rate)>>]
    /\ UNCHANGED <<db, now, resp, requests, clock, passed, http, pending>>

NextHealthScore == HealthScore

SpecHealthScore == InitHealthScore /\ [][NextHealthScore]_vars

(* C7: calculate_health_score returns max_score = 100 and an overall score *)
(* between 0 and 100 that is the sum of the five component scores, each    *)
(* between 0 and its maximum (20, 20, 25, 20, 15), whatever inputs are     *)
(* present or absent.                                                      *)
C7_HealthScore ==
    (calc.fn = "calculate_health_score" /\ ~IsNone(calc.result)) =>
        LET r == calc.result[1]
        IN  /\ r.max_score = 100
            /\ 0 <= r.overall_score /\ r.overall_score <= 100 * 100
            /\ r.overall_score =
                   r.breakdown.bmi.score + r.breakdown.sleep.score
                   + r.breakdown.exercise.score + r.breakdown.nutrition.score
                   + r.breakdown.vitals.score
            /\ \A c \in Components :
                   /\ 0 <= r.breakdown[c].score
                   /\ r.breakdown[c].score <= 100 * r.breakdown[c].max
            /\ r.breakdown.bmi.max = 20 /\ r.breakdown.sleep.max = 20
            /\ r.breakdown.exercise.max = 25
            /\ r.breakdown.nutrition.max = 20
            /\ r.breakdown.vitals.max = 15

(* C7 witness: a call with every input present and ideal was given the     *)
(* full 100 points.                                                        *)
C7_Witness ==
    /\ calc.fn = "calculate_health_score"
    /\ ~IsNone(calc.result)
    /\ ~IsNone(calc.nutrition_score) /\ ~IsNone(calc.heart_rate)
    /\ calc.result[1].overall_score = 100 * 100
    /\ calc.result[1].breakdown.vitals.score = 1500

----------------------------------------------------------------------------
(* api/endpoints/work_life.py: calculate_burnout_risk                      *)
(* A work session is [duration_hours (tenths of an hour), iso_week,        *)
(* weekday, hour, stress_level]; a meeting is its duration_minutes, an     *)
(* energy level its energy_score, a boundary its violation_count.          *)

MaxInputs == 2      \* records of each kind handed to calculate_burnout_risk

RECURSIVE Sum(_)
Sum(s) == IF s = <<>> THEN 0 ELSE Head(s) + Sum(Tail(s))

SeqsUpTo(S, n) == UNION {[1 .. k -> S] : k \in 0 .. n}

detect_always_on_patterns(work_sessions) ==
    IF work_sessions = <<>>
    THEN [detected |-> FALSE, patterns |-> <<>>]
    ELSE LET evening_sessions ==
                 SelectSeq(work_sessions, LAMBDA x : x.hour >= 20)
             weekend_sessions ==
                 SelectSeq(work_sessions, LAMBDA x : x.weekday >= 5)
             early_morning_sessions ==
                 SelectSeq(work_sessions, LAMBDA x : x.hour < 6)
             patterns ==
                 (IF evening_sessions # <<>>
                  THEN <<[type |-> "evening_work",
                          count |-> Len(evening_sessions),
                          severity |-> IF Len(evening_sessions) > 5
                                       THEN "high" ELSE "medium"]>>
                  ELSE <<>>)
                 \o (IF weekend_sessions # <<>>
                     THEN <<[type |-> "weekend_work",
                             count |-> Len(weekend_sessions),
                             severity |-> IF Len(weekend_sessions) > 3
                                          THEN "high" ELSE "low"]>>
                     ELSE <<>>)
                 \o (IF early_morning_sessions # <<>>
                     THEN <<[type |-> "early_morning_work",
                             count |-> Len(early_morning_sessions),
                             severity |-> IF Len(early_morning_sessions) > 3
                                          THEN "medium" ELSE "low"]>>
                     ELSE <<>>)
         IN  [detected |-> Len(patterns) > 0, patterns |-> patterns,
              total_unusual_sessions |->
                  Len(evening_sessions) + Len(weekend_sessions)
                  + Len(early_morning_sessions)]

(* the six risk factors, each with the points it adds                      *)
RiskPoints(work_sessions, meetings, energy_levels, boundaries) ==
    LET total_hours == Sum([i \in DOMAIN work_sessions |->
                                work_sessions[i].duration_hours])
        weeks == Cardinality({work_sessions[i].iso_week :
                                  i \in DOMAIN work_sessions})
        high_stress_sessions ==
            SelectSeq(work_sessions,
                      LAMBDA x : Truthy(x.stress_level)
                                 /\ x.stress_level[1] > 7)
    IN  <<IF work_sessions # <<>>
          THEN (IF total_hours > 500 * Max2(1, weeks)
                THEN <<"excessive_hours", 25>>
                ELSE IF total_hours > 450 * Max2(1, weeks)
                THEN <<"", 15>> ELSE <<"", 0>>)
          ELSE <<"", 0>>,
          IF meetings # <<>> /\ Sum(meetings) > 20 * 60
          THEN <<"meeting_overload", 20>> ELSE <<"", 0>>,
          IF energy_levels # <<>>
          THEN (IF Sum(energy_levels) < 5 * Len(energy_levels)
                THEN <<"low_energy", 25>>
                ELSE IF Sum(energy_levels) < 6 * Len(energy_levels)
                THEN <<"", 15>> ELSE <<"", 0>>)
          ELSE <<"", 0>>,
          IF 2 * Len(high_stress_sessions) > Len(work_sessions)
          THEN <<"high_stress", 20>> ELSE <<"", 0>>,
          IF boundaries # <<>> /\ Sum(boundaries) > 10
          THEN <<"boundary_violations", 15>> ELSE <<"", 0>>,
          IF detect_always_on_patterns(work_sessions).detected
          THEN <<"always_on_pattern", 15>> ELSE <<"", 0>> >>

(* a result that reports the uncapped total                                *)
calculate_burnout_risk_Uncapped(work_sessions, meetings, energy_levels, boundaries) ==
    LET points == RiskPoints(work_sessions, meetings, energy_levels,
                             boundaries)
        total_score == Sum([i \in DOMAIN points |-> points[i][2]])
    IN  [score |-> total_score,
         level |-> IF total_score >= 70 THEN "critical"
                   ELSE IF total_score >= 50 THEN "high"
                   ELSE IF total_score >= 30 THEN "medium"
                   ELSE "low",
         risk_factors |-> SelectSeq([i \in DOMAIN points |-> points[i][1]],
                                    LAMBDA f : f # "")]

calculate_burnout_risk(work_sessions, meetings, energy_levels, boundaries) ==
    LET points == RiskPoints(work_sessions, meetings, energy_levels,
                             boundaries)
        total_score == Sum([i \in DOMAIN points |-> points[i][2]])
    IN  [score |-> Min2(100, total_score),
         level |-> IF total_score >= 70 THEN "critical"
                   ELSE IF total_score >= 50 THEN "high"
                   ELSE IF total_score >= 30 THEN "medium"
                   ELSE "low",
         risk_factors |-> SelectSeq([i \in DOMAIN points |-> points[i][1]],
                                    LAMBDA f : f # "")]

WorkSessions ==
    {[duration_hours |-> 200, iso_week |-> 10, weekday |-> 2, hour |-> 10,
      stress_level |-> None],
     [duration_hours |-> 260, iso_week |-> 10, weekday |-> 2, hour |-> 10,
      stress_level |-> <<8>>],
     [duration_hours |-> 230, iso_week |-> 11, weekday |-> 2, hour |-> 21,
      stress_level |-> <<7>>],
     [duration_hours |-> 510, iso_week |-> 10, weekday |-> 5, hour |-> 3,
      stress_level |-> <<8>>],
     [duration_hours |-> 460, iso_week |-> 12, weekday |-> 0, hour |-> 9,
      stress_level |-> <<0>>]}

InitBurnout ==
    /\ db = EmptyDb /\ now = StartDay /\ resp = NoResponse
    /\ requests = <<>> /\ clock = 0 /\ passed = [ip \in IPs |-> <<>>]
    /\ http = NoHttp /\ pending = NoPending
    /\ \E work_sessions \in SeqsUpTo(WorkSessions, MaxInputs),
          meetings \in SeqsUpTo({600, 601}, MaxInputs),
          energy_levels \in SeqsUpTo({4, 5, 6}, MaxInputs),
          boundaries \in SeqsUpTo({5, 6}, MaxInputs) :
            calc = [fn |-> "calculate_burnout_risk",
                    work_sessions |-> work_sessions, meetings |-> meetings,
                    energy_levels |-> energy_levels,
                    boundaries |-> boundaries, result |-> None]

BurnoutRisk ==
    /\ IsNone(calc.result)
    /\ calc' = [calc EXCEPT !.result =
                    <<calculate_burnout_risk(calc.work_sessions,
                          calc.meetings, calc.energy_levels,
                          calc.boundaries)>>]
    /\ UNCHANGED <<db, now, resp, requests, clock, passed, http, pending>>

NextBurnout == BurnoutRisk

SpecBurnout == InitBurnout /\ [][NextBurnout]_vars

(* C8: calculate_burnout_risk returns a score between 0 and 100, and the   *)
(* level agrees with the score: critical from 70, high from 50 to below    *)
(* 70, medium from 30 to below 50, low below 30.                           *)
C8_BurnoutRisk ==
    (calc.fn = "calculate_burnout_risk" /\ ~IsNone(calc.result)) =>
        LET r == calc.result[1]
        IN  /\ 0 <= r.score /\ r.score <= 100
            /\ r.level = "critical" <=> r.score >= 70
            /\ r.level = "high" <=> (50 <= r.score /\ r.score < 70)
            /\ r.level = "medium" <=> (30 <= r.score /\ r.score < 50)
            /\ r.level = "low" <=> r.score < 30

(* C8 witness: all six risk factors were found, and the 120 points they    *)
(* add up to were reported as a score of 100, level critical.              *)
C8_Witness ==
    /\ calc.fn = "calculate_burnout_risk"
    /\ ~IsNone(calc.result)
    /\ Len(calc.result[1].risk_factors) = 6
    /\ calc.result[1].score = 100
    /\ calc.result[1].level = "critical"

----------------------------------------------------------------------------
(* services/export_import_service.py: import_from_json                     *)
(* A backup is [export_metadata, entries]; an entry names the table its    *)
(* pillar and entity type map to and carries one record.                   *)

(* columns that a record must supply: nullable=False without a default     *)
RequiredColumns(t) ==
    CASE t = "transactions" ->
            {"transaction_type", "category", "amount", "transaction_date"}
      [] t = "budgets" -> {"category", "amount_limit"}
      [] t = "financial_goals" -> {"title", "target_amount"}
      [] t = "deep_work_sessions" ->
            {"start_time", "duration_minutes", "focus_score"}
      [] t = "distractions" -> {"timestamp", "impact"}
      [] t = "meals" -> {"meal_type", "name", "meal_time"}
      [] OTHER -> {}

(* what the columns a record leaves out are filled with                    *)
ColumnDefaults(t) ==
    CASE t = "budgets" -> [is_active |-> <<1>>]
      [] t = "financial_goals" ->
            [current_amount |-> <<0>>, is_completed |-> <<0>>]
      [] t = "tasks" ->
            [status |-> "todo", completed_at |-> None, created_at |-> now]
      [] OTHER -> [f \in {} |-> None]

(* model_map: the tables a backup can fill                                 *)
ImportTables ==
    {"transactions", "budgets", "financial_goals", "tasks",
     "deep_work_sessions", "distractions", "meals", "boundary_violations"}

(* the models with a user_id column: BoundaryViolation has none            *)
HasUserId(t) == t # "boundary_violations"

(* the model constructor raises for a key that is not a column; the id of  *)
(* the record is popped and its user_id overwritten before                 *)
Constructible(e) ==
    /\ e.table \in ImportTables
    /\ HasUserId(e.table)
    /\ (DOMAIN e.record) \ {"id", "user_id"} \subseteq
           RequiredColumns(e.table) \cup DOMAIN ColumnDefaults(e.table)

(* a row stored with the id and the user_id its record came with           *)
ImportedRow_AsExported(d, u, e) ==
    e.record @@ [id |-> NextId(d[e.table]), user_id |-> u]
             @@ ColumnDefaults(e.table)

(* record.pop('id'); record['user_id'] = user; the model is built: the     *)
(* row gets the next primary key of its table                              *)
ImportedRow(d, u, e) ==
    [id |-> NextId(d[e.table]), user_id |-> u]
        @@ e.record @@ ColumnDefaults(e.table)

RECURSIVE AddAll(_, _, _)
(* db.add(the model object) for every record that a model was built from   *)
AddAll(d, u, entries) ==
    IF entries = <<>> THEN d
    ELSE LET e == Head(entries)
             row == ImportedRow(d, u, e)
         IN  IF Constructible(e)
             THEN AddAll([d EXCEPT ![e.table] = @ \cup {row}], u,
                         Tail(entries))
             ELSE AddAll(d, u, Tail(entries))

(* the commit fails when an added row lacks a NOT NULL column              *)
CommitFails(entries) ==
    \E i \in DOMAIN entries :
        /\ Constructible(entries[i])
        /\ ~(RequiredColumns(entries[i].table) \subseteq
                DOMAIN entries[i].record)

import_from_json(u, data) ==
    LET constructed == SelectSeq(data.entries, Constructible)
        success == data.export_metadata /\ ~CommitFails(data.entries)
    IN  /\ db' = IF success THEN AddAll(db, u, data.entries) ELSE db
        /\ resp' = Response("import_from_json", u, "none", 0, data, 200,
                       [success |-> success,
                        records_imported |->
                            IF data.export_metadata
                            THEN Len(constructed) ELSE 0,
                        records_failed |->
                            IF data.export_metadata
                            THEN Len(data.entries) - Len(constructed)
                            ELSE 0])
        /\ RouteFrame

Backup(t, record) ==
    [export_metadata |-> TRUE,
     entries |-> <<[table |-> t, record |-> record]>>]

----------------------------------------------------------------------------
(* api/endpoints/productivity.py: deep work, distractions, dashboard       *)

DeepWorkSessionCreate(b) == b.duration_minutes > 0 /\ b.focus_score \in 1 .. 10

DistractionCreate(b) == b.impact \in 1 .. 10

create_deep_work_session(u, b) ==
    /\ IF ~DeepWorkSessionCreate(b)
       THEN Invalid("create_deep_work_session", u, "deep_work_sessions", 0, b)
       ELSE Insert("create_deep_work_session", u, "deep_work_sessions", b,
                   [start_time |-> b.start_time,
                    duration_minutes |-> b.duration_minutes,
                    focus_score |-> b.focus_score], 201)
    /\ RouteFrame

create_distraction(u, b) ==
    /\ IF ~DistractionCreate(b)
       THEN Invalid("create_distraction", u, "distractions", 0, b)
       ELSE Insert("create_distraction", u, "distractions", b,
                   [timestamp |-> b.timestamp, impact |-> b.impact], 201)
    /\ RouteFrame

(* int(x) of a quotient n / d with d > 0: truncation towards zero          *)
TruncDiv(n, d) == IF n >= 0 THEN n \div d ELSE -((-n) \div d)

(* min(100, int(completion_rate * 0.3 + avg_focus_score * 10 * 0.3         *)
(*   + (1 - min(context_switches / (days * 10), 1)) * 100 * 0.2            *)
(*   + min(total_deep_work_hours / (days * 4), 1) * 100 * 0.2)),           *)
(* the four terms brought to the denominator 12 * days * tasks * sessions  *)
productivity_score(completed, tasks, focus_sum, sessions, context_switches, minutes, days) ==
    LET t == Max2(tasks, 1)
        n == Max2(sessions, 1)
        completion == 12 * days * n * 30 * completed
        focus == 12 * days * t * 3 * focus_sum
        switches == t * n * 12
                    * (20 * days - 2 * Min2(context_switches, 10 * days))
        hours == t * n * (IF minutes >= 240 * days THEN 240 * days
                          ELSE minutes)
    IN  Min2(100, TruncDiv(completion + focus + switches + hours,
                           12 * days * t * n))

(* a dashboard served from the aggregate of the empty database            *)
get_productivity_dashboard_Cached(u, days) ==
    /\ resp' = Response("get_productivity_dashboard", u, "none", 0,
                        [days |-> days], 200,
                        [productivity_score |->
                             productivity_score(0, 0, 0, 0, 0, 0, Max2(days, 1)),
                         tasks_completed |-> 0, tasks_total |-> 0,
                         context_switches |-> 0, days_analyzed |-> days])
    /\ UNCHANGED db
    /\ RouteFrame

get_productivity_dashboard(u, days) ==
    /\ IF days < 1 \/ days > 365
       THEN Invalid("get_productivity_dashboard", u, "none", 0,
                    [days |-> days])
       ELSE LET cutoff_date == now - days
                tasks == {r \in db.tasks :
                            r.user_id = u /\ r.created_at >= cutoff_date}
                completed_tasks == {r \in tasks : r.status = "completed"}
                deep_work == {r \in db.deep_work_sessions :
                                r.user_id = u /\ r.start_time >= cutoff_date}
                distractions == {r \in db.distractions :
                                   r.user_id = u /\ r.timestamp >= cutoff_date}
            IN  /\ resp' = Response("get_productivity_dashboard", u, "none",
                               0, [days |-> days], 200,
                               [productivity_score |->
                                    productivity_score(
                                        Cardinality(completed_tasks),
                                        Cardinality(tasks),
                                        SumOver(deep_work, "focus_score"),
                                        Cardinality(deep_work),
                                        Cardinality(distractions),
                                        SumOver(deep_work, "duration_minutes"),
                                        days),
                                tasks_completed |->
                                    Cardinality(completed_tasks),
                                tasks_total |-> Cardinality(tasks),
                                context_switches |->
                                    Cardinality(distractions),
                                days_analyzed |-> days])
                /\ UNCHANGED db
    /\ RouteFrame

DeepWorkBodies ==
    {[start_time |-> StartDay, duration_minutes |-> 600, focus_score |-> 10],
     [start_time |-> StartDay - 40, duration_minutes |-> 30,
      focus_score |-> 1],
     [start_time |-> StartDay, duration_minutes |-> 0, focus_score |-> 11]}

DistractionBodies ==
    {[timestamp |-> StartDay, impact |-> 5],
     [timestamp |-> StartDay, impact |-> 0]}

ProductivityBackups ==
    {Backup("deep_work_sessions",
            [start_time |-> StartDay, duration_minutes |-> -600,
             focus_score |-> -50]),
     Backup("deep_work_sessions",
            [start_time |-> StartDay, focus_score |-> 7]),
     Backup("tasks", [status |-> "completed"]),
     Backup("distractions", [timestamp |-> StartDay, impact |-> 5]),
     Backup("distractions", [timestamp |-> StartDay, severity |-> 5]),
     [export_metadata |-> FALSE,
      entries |-> <<[table |-> "tasks", record |-> [status |-> "todo"]]>>]}

DashboardDays == {0, 1, 30, 365}

ProdCreate ==
    \E u \in Users :
        /\ TotalRows(db) < MaxRecords
        /\ \/ \E b \in TaskBodies : create_task(u, b)
           \/ \E b \in DeepWorkBodies : create_deep_work_session(u, b)
           \/ \E b \in DistractionBodies : create_distraction(u, b)

ProdUpdate ==
    \E u \in Users, id \in Ids, b \in TaskUpdates : update_task(u, id, b)

ProdImport ==
    \E u \in Users, data \in ProductivityBackups :
        /\ TotalRows(db) + Len(data.entries) <= MaxRecords
        /\ import_from_json(u, data)

ProdDashboard ==
    \E u \in Users, days \in DashboardDays : get_productivity_dashboard(u, days)

NextProd == ProdCreate \/ ProdUpdate \/ ProdImport \/ ProdDashboard

SpecProd == Init /\ [][NextProd]_vars

(* C9: the productivity_score of the productivity dashboard is an integer  *)
(* between 0 and 100 for every set of the user's tasks, deep-work sessions *)
(* and distractions and every days value in 1..365.                        *)
C9_ProductivityScore ==
    (resp.op = "get_productivity_dashboard" /\ resp.status = 200) =>
        resp.body.productivity_score \in 0 .. 100

----------------------------------------------------------------------------
(* api/endpoints/financial.py: health score and dashboard                  *)
(* Amounts are whole currency units.  The float arithmetic is carried out  *)
(* on exact fractions <<numerator, denominator>>, and round(x, 2) gives an *)
(* integer number of hundredths.                                           *)

Abs(n) == IF n >= 0 THEN n ELSE -n

RECURSIVE GCD(_, _)
GCD(a, b) == IF b = 0 THEN a ELSE GCD(b, a % b)

(* the fraction n / d, d # 0, in lowest terms with a positive denominator  *)
Frac(n, d) ==
    LET g == GCD(Abs(n), Abs(d))
        sign == IF d > 0 THEN 1 ELSE -1
    IN  <<sign * (n \div g), Abs(d) \div g>>

Whole(n) == <<n, 1>>

FAdd(a, b) == Frac(a[1] * b[2] + b[1] * a[2], a[2] * b[2])

FLe(a, b) == a[1] * b[2] <= b[1] * a[2]

FMin(a, b) == IF FLe(a, b) THEN a ELSE b

FMax(a, b) == IF FLe(a, b) THEN b ELSE a

(* x * (n / d)                                                             *)
FScale(x, n, d) == Frac(x[1] * n, x[2] * d)

RECURSIVE FSum(_)
(* sum(f[r] for r in rows), f a function from rows to fractions            *)
FSum(f) ==
    IF DOMAIN f = {} THEN Whole(0)
    ELSE LET r == CHOOSE x \in DOMAIN f : TRUE
         IN  FAdd(f[r], FSum([x \in (DOMAIN f) \ {r} |-> f[x]]))

(* round(x, 2) in hundredths, ties to the even neighbour                   *)
Round2(x) ==
    LET n == Abs(x[1]) * 100
        q == n \div x[2]
        twice == 2 * (n % x[2])
        magnitude == IF twice > x[2] \/ (twice = x[2] /\ q % 2 = 1)
                     THEN q + 1 ELSE q
    IN  IF x[1] >= 0 THEN magnitude ELSE -magnitude

(* 'emergency' in title.lower(), over the titles of the model              *)
IsEmergencyTitle(title) == title \in {"Emergency fund", "EMERGENCY"}

(* an unhandled exception in a route: general_exception_handler            *)
Crash(op, u) ==
    /\ resp' = Response(op, u, "none", 0, None, general_exception_handler,
                        None)
    /\ UNCHANGED db

(* datetime(now.year, now.month, 1), with months of 30 days                *)
MonthStart(day) == day - (day % 30)

calculate_financial_health_score(u) ==
    LET three_months_ago == now - 90
        recent_transactions ==
            {t \in db.transactions :
                t.user_id = u /\ t.transaction_date >= three_months_ago}
        income == SumOver({t \in recent_transactions :
                              t.transaction_type = "income"}, "amount")
        expenses == SumOver({t \in recent_transactions :
                                t.transaction_type = "expense"}, "amount")
        savings_rate == IF income > 0
                        THEN Frac((income - expenses) * 100, income)
                        ELSE Whole(0)
        savings_score ==
            FMin(Whole(30), FMax(Whole(0), FScale(savings_rate, 3, 2)))
        budgets == {b \in db.budgets : b.user_id = u /\ b.is_active = <<1>>}
        spent(b) == SumOver({t \in recent_transactions :
                                /\ t.transaction_type = "expense"
                                /\ t.category = b.category}, "amount")
        adherence(b) ==
            FMax(Whole(0),
                 Frac(100 * (b.amount_limit - spent(b)), b.amount_limit))
        budget_score ==
            IF budgets # {}
            THEN FScale(FSum([b \in budgets |-> adherence(b)]), 1, 4 * Cardinality(budgets))
            ELSE Whole(0)
        goals == {g \in db.financial_goals :
                     g.user_id = u /\ g.is_completed = <<0>>}
        progress(g) ==
            FMin(Whole(100), Frac(g.current_amount[1] * 100, g.target_amount))
        goal_score ==
            IF goals # {}
            THEN FScale(FSum([g \in goals |-> progress(g)]), 1, 5 * Cardinality(goals))
            ELSE Whole(0)
        debts == {d \in db.debts : d.user_id = u /\ d.is_active = <<1>>}
        total_debt == SumOver(debts, "current_balance")
        debt_score ==
            IF income > 0
            THEN FMax(Whole(0),
                      Frac(60 * income - 15 * total_debt, 4 * income))
            ELSE Whole(0)
        emergency_goals == {g \in goals : IsEmergencyTitle(g.title)}
        emergency_score ==
            IF emergency_goals # {}
            THEN LET g == CHOOSE x \in emergency_goals :
                              \A y \in emergency_goals : x.id <= y.id
                 IN  FMin(Whole(10),
                          Frac(g.current_amount[1] * 10, g.target_amount))
            ELSE Whole(0)
        total_score ==
            FAdd(FAdd(FAdd(FAdd(savings_score, budget_score), goal_score),
                      debt_score), emergency_score)
        raises ==
            \/ \E b \in budgets : b.amount_limit = 0
            \/ \E g \in goals : IsNone(g.current_amount) \/ g.target_amount = 0
    IN  /\ IF raises
           THEN Crash("calculate_financial_health_score", u)
           ELSE /\ resp' = Response("calculate_financial_health_score", u,
                               "none", 0, None, 200,
                               [overall_score |-> Round2(total_score),
                                breakdown |->
                                    [savings_rate |->
                                        [score |-> Round2(savings_score),
                                         max_score |-> 30],
                                     budget_adherence |->
                                        [score |-> Round2(budget_score),
                                         max_score |-> 25],
                                     goal_progress |->
                                        [score |-> Round2(goal_score),
                                         max_score |-> 20],
                                     debt_management |->
                                        [score |-> Round2(debt_score),
                                         max_score |-> 15],
                                     emergency_fund |->
                                        [score |-> Round2(emergency_score),
                                         max_score |-> 10]]])
                /\ UNCHANGED db
        /\ RouteFrame

get_financial_dashboard(u) ==
    LET current_month_start == MonthStart(now)
        last_month_start == MonthStart(current_month_start - 1)
        mine == {t \in db.transactions : t.user_id = u}
        current_month_transactions ==
            {t \in mine : t.transaction_date >= current_month_start}
        last_month_transactions ==
            {t \in mine : /\ t.transaction_date >= last_month_start
                          /\ t.transaction_date < current_month_start}
        Of(rows, type) ==
            SumOver({t \in rows : t.transaction_type = type}, "amount")
        current_income == Of(current_month_transactions, "income")
        current_expenses == Of(current_month_transactions, "expense")
        investments == {i \in db.investments : i.user_id = u}
        value(i) ==
            Whole(i.quantity * (IF Truthy(i.current_price)
                                THEN i.current_price[1]
                                ELSE i.purchase_price))
        investment_value == FSum([i \in investments |-> value(i)])[1]
        debts == {d \in db.debts : d.user_id = u /\ d.is_active = <<1>>}
        total_debt == SumOver(debts, "current_balance")
        net_worth == (Of(mine, "income") - Of(mine, "expense"))
                     + investment_value - total_debt
        savings_rate ==
            IF current_income > 0
            THEN Frac((current_income - current_expenses) * 100,
                      current_income)
            ELSE Whole(0)
        health_score ==
            FMin(Whole(100), FMax(Whole(0),
                FAdd(FAdd(FScale(savings_rate, 4, 10),
                          FScale(FMin(Whole(100), Frac(investment_value, 1000)),
                                 3, 10)),
                     FScale(FMax(Whole(0), Frac(100000 - total_debt, 1000)),
                            3, 10))))
    IN  /\ resp' = Response("get_financial_dashboard", u, "none", 0, None,
                       200,
                       [current_balance |-> current_income - current_expenses,
                        net_worth |-> net_worth,
                        last_month_net |->
                            Of(last_month_transactions, "income")
                            - Of(last_month_transactions, "expense"),
                        investments_total_value |-> investment_value,
                        debts_total_balance |-> total_debt,
                        financial_health_score |-> Round2(health_score)])
        /\ UNCHANGED db
        /\ RouteFrame

FinTransactionBodies ==
    {[transaction_type |-> "expense", category |-> "food", amount |-> 40,
      transaction_date |-> StartDay - 5],
     [transaction_type |-> "income", category |-> "salary", amount |-> 200,
      transaction_date |-> StartDay - 5],
     [transaction_type |-> "expense", category |-> "housing", amount |-> 300,
      transaction_date |-> StartDay - 35],
     [transaction_type |-> "income", category |-> "salary", amount |-> 0,
      transaction_date |-> StartDay]}

GoalAmountUpdates == {[current_amount |-> <<100>>], [current_amount |-> None]}

FinancialBackups ==
    {Backup("financial_goals",
            [title |-> "EMERGENCY", target_amount |-> 100,
             current_amount |-> <<-50>>]),
     Backup("financial_goals", [title |-> "Vacation"]),
     Backup("budgets", [category |-> "food", amount_limit |-> 0]),
     Backup("budgets", [category |-> "food", amount_limit |-> -100]),
     Backup("transactions",
            [transaction_type |-> "income", category |-> "salary",
             amount |-> 1000, transaction_date |-> StartDay])}

FinCreate ==
    \E u \in Users :
        /\ TotalRows(db) < MaxRecords
        /\ \/ \E b \in FinTransactionBodies : create_transaction(u, b)
           \/ \E b \in BudgetBodies : create_budget(u, b)
           \/ \E b \in InvestmentBodies : create_investment(u, b)
           \/ \E b \in DebtBodies : create_debt(u, b)
           \/ \E b \in FinancialGoalBodies : financial_create_goal(u, b)

FinUpdate ==
    \E u \in Users, id \in Ids, b \in GoalAmountUpdates :
        financial_update_goal(u, id, b)

FinImport ==
    \E u \in Users, data \in FinancialBackups :
        /\ TotalRows(db) + Len(data.entries) <= MaxRecords
        /\ import_from_json(u, data)

FinHealthScore == \E u \in Users : calculate_financial_health_score(u)

FinDashboard == \E u \in Users : get_financial_dashboard(u)

NextFin ==
    FinCreate \/ FinUpdate \/ FinImport \/ FinHealthScore \/ FinDashboard

SpecFin == Init /\ [][NextFin]_vars

(* C10: the /health-score endpoint returns an overall score between 0 and  *)
(* 100 whose five components lie between 0 and their maximum (30, 25, 20,  *)
(* 15, 10), and the dashboard's financial_health_score is between 0 and    *)
(* 100, for every set of the user's records.                               *)
C10_FinancialHealthScore ==
    /\ resp.op = "calculate_financial_health_score" =>
        /\ resp.status = 200
        /\ resp.body.overall_score \in 0 .. 100 * 100
        /\ \A c \in DOMAIN resp.body.breakdown :
              /\ 0 <= resp.body.breakdown[c].score
              /\ resp.body.breakdown[c].score
                    <= 100 * resp.body.breakdown[c].max_score
        /\ resp.body.breakdown.savings_rate.max_score = 30
        /\ resp.body.breakdown.budget_adherence.max_score = 25
        /\ resp.body.breakdown.goal_progress.max_score = 20
        /\ resp.body.breakdown.debt_management.max_score = 15
        /\ resp.body.breakdown.emergency_fund.max_score = 10
    /\ resp.op = "get_financial_dashboard" =>
        /\ resp.status = 200
        /\ resp.body.financial_health_score \in 0 .. 100 * 100

----------------------------------------------------------------------------
(* services/health_calculations.py: calculate_bmi                          *)
(* api/endpoints/health.py: biometrics                                     *)
(* Weights are whole kilograms and heights whole centimetres; a BMI is an  *)
(* integer number of hundredths.  The quotient is taken exactly; the       *)
(* weights and heights of the model have no quotient that lies on a tie    *)
(* between two hundredths, where the binary floating-point error of        *)
(* height_m ** 2 decides the direction.                                    *)

(* the quotient by the height instead of its square                        *)
calculate_bmi_NoSquare(weight_kg, height_cm) ==
    Round2(Frac(weight_kg * 100, height_cm))

(* height_m = height_cm / 100; round(weight_kg / (height_m ** 2), 2)       *)
calculate_bmi(weight_kg, height_cm) ==
    Round2(Frac(weight_kg * 10000, height_cm * height_cm))

(* Optional[...] = Field(None, gt=0): an absent or null value passes       *)
BiometricCreate(b) ==
    /\ IsNone(b.weight) \/ b.weight[1] > 0
    /\ IsNone(b.height) \/ b.height[1] > 0
    /\ IsNone(b.blood_pressure_systolic) \/ b.blood_pressure_systolic[1] > 0
    /\ IsNone(b.heart_rate) \/ b.heart_rate[1] > 0

create_biometric(u, b) ==
    /\ IF ~BiometricCreate(b)
       THEN Invalid("create_biometric", u, "biometrics", 0, b)
       ELSE LET biometric_dict ==
                    IF Truthy(b.weight) /\ Truthy(b.height)
                    THEN [b EXCEPT !.bmi = <<calculate_bmi(b.weight[1],
                                                          b.height[1])>>]
                    ELSE b
            IN  Insert("create_biometric", u, "biometrics", b,
                       biometric_dict, 201)
    /\ RouteFrame

BmiWeights == {55, 70}

BmiHeights == {160, 175}

BiometricBodies ==
    {[measurement_date |-> StartDay, weight |-> w, height |-> h, bmi |-> m,
      blood_pressure_systolic |-> None, heart_rate |-> None] :
        w \in Opt(BmiWeights), h \in Opt(BmiHeights), m \in Opt({2500})}
    \cup
    {[measurement_date |-> StartDay - 1, weight |-> <<90>>,
      height |-> <<180>>, bmi |-> None,
      blood_pressure_systolic |-> <<118>>, heart_rate |-> <<72>>],
     [measurement_date |-> StartDay, weight |-> <<0>>, height |-> <<175>>,
      bmi |-> None, blood_pressure_systolic |-> None, heart_rate |-> None],
     [measurement_date |-> StartDay, weight |-> <<70>>, height |-> <<0>>,
      bmi |-> None, blood_pressure_systolic |-> None, heart_rate |-> None]}

(* total_hours: float = Field(..., gt=0, le=24); sleep_quality 1..10       *)
SleepCreate(b) ==
    /\ b.total_hours > 0 /\ b.total_hours <= 24
    /\ b.sleep_quality \in 1 .. 10

create_sleep(u, b) ==
    /\ IF ~SleepCreate(b)
       THEN Invalid("create_sleep", u, "sleep_records", 0, b)
       ELSE Insert("create_sleep", u, "sleep_records", b, b, 201)
    /\ RouteFrame

get_bmi_category(bmi) ==
    IF bmi < 1850 THEN "Underweight"
    ELSE IF bmi < 2500 THEN "Normal weight"
    ELSE IF bmi < 3000 THEN "Overweight"
    ELSE "Obese"

(* The dashboard of a user without meals, exercises and symptoms (tables   *)
(* the model does not hold): exercise_days is 0 and nutrition_score None.  *)
(* The sleep records of the model have a whole number of hours divisible   *)
(* by 3, so their average over up to four nights is exact in hundredths.   *)
get_health_dashboard(u) ==
    LET week_ago == now - 7
        biometrics == OrderByDesc({r \in db.biometrics : r.user_id = u},
                                  "measurement_date")
        latest_biometric == IF biometrics = <<>> THEN None
                            ELSE <<biometrics[1]>>
        recent_sleep == {r \in db.sleep_records :
                            r.user_id = u /\ r.sleep_date >= week_ago}
        avg_sleep_hours ==
            IF recent_sleep = {} THEN 0
            ELSE (SumOver(recent_sleep, "total_hours") * 100)
                    \div Cardinality(recent_sleep)
        avg_sleep_quality ==
            IF recent_sleep = {} THEN Whole(0)
            ELSE Frac(SumOver(recent_sleep, "sleep_quality"),
                      Cardinality(recent_sleep))
        measured == /\ ~IsNone(latest_biometric)
                    /\ Truthy(latest_biometric[1].weight)
                    /\ Truthy(latest_biometric[1].height)
        bmi == IF ~measured THEN None
               ELSE IF Truthy(latest_biometric[1].bmi)
               THEN latest_biometric[1].bmi
               ELSE <<calculate_bmi(latest_biometric[1].weight[1],
                                    latest_biometric[1].height[1])>>
        health_score ==
            calculate_health_score(
                bmi, <<avg_sleep_hours>>, <<0>>, None,
                IF IsNone(latest_biometric) THEN None
                ELSE latest_biometric[1].blood_pressure_systolic,
                IF IsNone(latest_biometric) THEN None
                ELSE latest_biometric[1].heart_rate)
    IN  /\ resp' = Response("get_health_dashboard", u, "none", 0, None, 200,
                       [biometrics |->
                            [bmi |-> IF Truthy(bmi) THEN bmi ELSE None,
                             bmi_category |->
                                 IF measured THEN get_bmi_category(bmi[1])
                                 ELSE "",
                             weight |->
                                 IF ~IsNone(latest_biometric)
                                    /\ Truthy(latest_biometric[1].weight)
                                 THEN latest_biometric[1].weight ELSE None,
                             heart_rate |->
                                 IF IsNone(latest_biometric) THEN None
                                 ELSE latest_biometric[1].heart_rate,
                             last_measurement |->
                                 IF IsNone(latest_biometric) THEN None
                                 ELSE <<latest_biometric[1].measurement_date>>],
                        sleep |->
                            [average_hours |-> avg_sleep_hours,
                             average_quality |-> Round2(avg_sleep_quality),
                             nights_tracked |-> Cardinality(recent_sleep)],
                        health_score |-> health_score])
        /\ UNCHANGED db
    /\ RouteFrame

SleepBodies ==
    {[sleep_date |-> StartDay - 1, total_hours |-> 9, sleep_quality |-> 8],
     [sleep_date |-> StartDay - 2, total_hours |-> 6, sleep_quality |-> 3],
     [sleep_date |-> StartDay - 10, total_hours |-> 12, sleep_quality |-> 3],
     [sleep_date |-> StartDay, total_hours |-> 25, sleep_quality |-> 5]}

HealthCreate ==
    \E u \in Users :
        /\ TotalRows(db) < MaxRecords
        /\ \/ \E b \in BiometricBodies : create_biometric(u, b)
           \/ \E b \in SleepBodies : create_sleep(u, b)

HealthDashboard == \E u \in Users : get_health_dashboard(u)

NextHealth == HealthCreate \/ HealthDashboard

SpecHealth == Init /\ [][NextHealth]_vars

(* bmi, in hundredths, is a hundredth nearest to weight / (height / 100)^2 *)
NearestBmi(bmi, weight_kg, height_cm) ==
    2 * Abs(bmi * height_cm * height_cm - weight_kg * 1000000)
        <= height_cm * height_cm

(* C11: for every weight and every positive height calculate_bmi returns   *)
(* weight_kg / (height_cm / 100)^2 rounded to two decimals, and            *)
(* create_biometric stores exactly that value as bmi whenever the body     *)
(* gives both weight and height, whatever bmi the body carries.            *)
C11_Bmi ==
    /\ \A w \in BmiWeights \cup {-70, 0, 90}, h \in BmiHeights \cup {180} :
          NearestBmi(calculate_bmi(w, h), w, h)
    /\ (/\ resp.op = "create_biometric"
        /\ ~IsNone(resp.req.weight)
        /\ ~IsNone(resp.req.height)
        /\ resp.status \notin {validation_exception_handler}) =>
            /\ resp.status = 201
            /\ \E r \in db.biometrics :
                  /\ r.id = resp.id
                  /\ r.user_id = resp.user
                  /\ r.bmi = <<calculate_bmi(resp.req.weight[1],
                                             resp.req.height[1])>>
                  /\ NearestBmi(r.bmi[1], r.weight[1], r.height[1])
                  /\ resp.body = r

(* a stored biometric whose body carried another bmi than the computed one *)
C11_Witness ==
    /\ resp.op = "create_biometric"
    /\ resp.status = 201
    /\ resp.req.weight = <<70>>
    /\ resp.req.height = <<175>>
    /\ resp.req.bmi = <<2500>>
    /\ resp.body.bmi = <<2286>>
    /\ resp.body \in db.biometrics

----------------------------------------------------------------------------
(* api/endpoints/work_life.py: work sessions, boundaries, dashboard        *)
(* A datetime is a number of hours since the epoch: its hour is t % 24,    *)
(* its day t \div 24; day 0 is a Monday and weeks are counted from it.     *)
(* duration_hours is in tenths of an hour.                                 *)

BoundaryType ==
    {"work_hours", "communication", "workload", "personal_time", "emotional",
     "other"}

Hour(t) == t % 24

utcnow == now * 24

WorkSessionCreate(b) ==
    /\ b.duration_hours > 0
    /\ IsNone(b.stress_level) \/ b.stress_level[1] \in 1 .. 10

BoundaryCreate(b) == b.boundary_type \in BoundaryType /\ b.importance \in 1 .. 5

BoundaryUpdate(b) == TRUE

(* the active boundaries whatever their type                               *)
check_work_boundary_violations_AnyType(u, start_time, end_time) ==
    {r.id : r \in {x \in db.boundaries :
                      /\ x.user_id = u /\ x.is_active = <<TRUE>>
                      /\ (Hour(start_time) >= 18 \/ Hour(end_time) >= 22)}}

(* the boundary_id of every violation found                                *)
check_work_boundary_violations(u, start_time, end_time) ==
    {r.id : r \in {x \in db.boundaries :
                      /\ x.user_id = u /\ x.is_active = <<TRUE>>
                      /\ x.boundary_type = "work_hours"
                      /\ (Hour(start_time) >= 18 \/ Hour(end_time) >= 22)}}

(* boundary.violation_count += 1; db.commit()                              *)
log_boundary_violation(boundaries, boundary_id) ==
    {IF r.id = boundary_id
     THEN [r EXCEPT !.violation_count = @ + 1] ELSE r : r \in boundaries}

RECURSIVE LogAll(_, _)
(* for violation in violations: log_boundary_violation(...)                *)
LogAll(boundaries, ids) ==
    IF ids = {} THEN boundaries
    ELSE LET id == CHOOSE x \in ids : TRUE
         IN  LogAll(log_boundary_violation(boundaries, id), ids \ {id})

create_work_session(u, b) ==
    /\ IF ~WorkSessionCreate(b)
       THEN Invalid("create_work_session", u, "work_sessions", 0, b)
       ELSE LET violations ==
                    check_work_boundary_violations(u, b.start_time, b.end_time)
                new == [id |-> NextId(db.work_sessions), user_id |-> u] @@ b
            IN  /\ db' = [db EXCEPT
                            !.work_sessions = @ \cup {new},
                            !.boundaries = LogAll(@, violations)]
                /\ resp' = RowResponse("create_work_session", u,
                               "work_sessions", new.id, b, 200, new)
    /\ RouteFrame

create_boundary(u, b) ==
    /\ IF ~BoundaryCreate(b)
       THEN Invalid("create_boundary", u, "boundaries", 0, b)
       ELSE Insert("create_boundary", u, "boundaries", b,
                   [boundary_type |-> b.boundary_type,
                    importance |-> b.importance,
                    is_active |-> <<TRUE>>, violation_count |-> 0], 200)
    /\ RouteFrame

update_boundary(u, id, b) ==
    /\ IF ~BoundaryUpdate(b)
       THEN Invalid("update_boundary", u, "boundaries", id, b)
       ELSE UpdateById("update_boundary", u, "boundaries", id, b)
    /\ RouteFrame

RECURSIVE All(_)
(* query.all(): the rows in primary-key order                              *)
All(rows) ==
    IF rows = {} THEN <<>>
    ELSE LET r == CHOOSE x \in rows : \A y \in rows : x.id <= y.id
         IN  <<r>> \o All(rows \ {r})

(* what the scoring functions read of a WorkSession row                    *)
SessionView(r) ==
    [duration_hours |-> r.duration_hours,
     iso_week |-> (r.start_time \div 24) \div 7,
     weekday |-> (r.start_time \div 24) % 7,
     hour |-> Hour(r.start_time),
     stress_level |-> r.stress_level]

(* no social activity and no energy level is stored: the ratio is 0 and    *)
(* ratio_score = max(0, 100 - abs(0 - 0.5) * 100) = 50, energy_score = 50  *)
calculate_balance_score(work_sessions) ==
    IF work_sessions = {} THEN 50
    ELSE LET total_work_hours == SumOver(work_sessions, "duration_hours")
             ratio_score == IF total_work_hours = 0 THEN 100 ELSE 50
             overtime_sessions == {x \in work_sessions : x.is_overtime}
             overtime_penalty == Min2(20, Cardinality(overtime_sessions) * 2)
         IN  Max2(0, Min2(100, (ratio_score + 50) \div 2 - overtime_penalty))

(* a dashboard that prunes the requester's work sessions while it reads    *)
get_dashboard_Pruning(u, days) ==
    /\ resp' = Response("get_dashboard", u, "none", 0, [days |-> days], 200,
                        None)
    /\ db' = [db EXCEPT !.work_sessions = {r \in @ : r.user_id # u}]
    /\ RouteFrame

(* The dashboard of a user without meetings, energy levels and social      *)
(* activities (tables the model does not hold).                            *)
get_dashboard(u, days) ==
    /\ IF days < 1 \/ days > 90
       THEN Invalid("get_dashboard", u, "none", 0, [days |-> days])
       ELSE LET end_date == utcnow
                start_date == end_date - days * 24
                work_sessions ==
                    {r \in db.work_sessions :
                        /\ r.user_id = u
                        /\ r.start_time >= start_date
                        /\ r.end_time <= end_date}
                boundaries ==
                    {r \in db.boundaries :
                        r.user_id = u /\ r.is_active = <<TRUE>>}
                views == [i \in DOMAIN All(work_sessions) |->
                              SessionView(All(work_sessions)[i])]
                counts == [i \in DOMAIN All(boundaries) |->
                               All(boundaries)[i].violation_count]
            IN  /\ resp' = Response("get_dashboard", u, "none", 0,
                               [days |-> days], 200,
                               [period_days |-> days,
                                balance_score |->
                                    calculate_balance_score(work_sessions),
                                always_on_patterns |->
                                    detect_always_on_patterns(views),
                                burnout_risk |->
                                    calculate_burnout_risk(views, <<>>, <<>>,
                                                           counts),
                                total_work_hours |->
                                    SumOver(work_sessions, "duration_hours"),
                                total_meetings |-> 0,
                                active_boundaries |-> Cardinality(boundaries),
                                boundary_violations |->
                                    SumOver(boundaries, "violation_count")])
                /\ UNCHANGED db
    /\ RouteFrame

WorkSessionBodies ==
    {[start_time |-> (StartDay - 1) * 24 + 9,
      end_time |-> (StartDay - 1) * 24 + 17, duration_hours |-> 80,
      is_overtime |-> FALSE, stress_level |-> None],
     [start_time |-> (StartDay - 1) * 24 + 19,
      end_time |-> (StartDay - 1) * 24 + 21, duration_hours |-> 20,
      is_overtime |-> TRUE, stress_level |-> <<8>>],
     [start_time |-> (StartDay - 2) * 24 + 14,
      end_time |-> (StartDay - 2) * 24 + 22, duration_hours |-> 80,
      is_overtime |-> TRUE, stress_level |-> <<5>>],
     [start_time |-> (StartDay - 100) * 24 + 17,
      end_time |-> (StartDay - 100) * 24 + 21, duration_hours |-> 40,
      is_overtime |-> FALSE, stress_level |-> None],
     [start_time |-> (StartDay - 1) * 24 + 9,
      end_time |-> (StartDay - 1) * 24 + 9, duration_hours |-> 0,
      is_overtime |-> FALSE, stress_level |-> None]}

BoundaryBodies ==
    {[boundary_type |-> "work_hours", importance |-> 3],
     [boundary_type |-> "communication", importance |-> 5],
     [boundary_type |-> "work_hours", importance |-> 6]}

BoundaryUpdates ==
    {[is_active |-> <<FALSE>>], [is_active |-> <<TRUE>>],
     [is_active |-> None]}

WorkLifeDays == {0, 7, 90, 91}

WorkLifeCreate ==
    \E u \in Users :
        /\ TotalRows(db) < MaxRecords
        /\ \/ \E b \in WorkSessionBodies : create_work_session(u, b)
           \/ \E b \in BoundaryBodies : create_boundary(u, b)

WorkLifeUpdate ==
    \E u \in Users, id \in Ids, b \in BoundaryUpdates :
        update_boundary(u, id, b)

WorkLifeDashboard ==
    \E u \in Users, days \in WorkLifeDays : get_dashboard(u, days)

NextWorkLife == WorkLifeCreate \/ WorkLifeUpdate \/ WorkLifeDashboard

SpecWorkLife == Init /\ [][NextWorkLife]_vars

----------------------------------------------------------------------------
(* Specification SpecDash: the four dashboards and the financial health    *)
(* score, read between creates, updates and deletes in every pillar.       *)

DashTransactions ==
    {[transaction_type |-> "income", category |-> "salary", amount |-> 200,
      transaction_date |-> StartDay - 5],
     [transaction_type |-> "expense", category |-> "food", amount |-> 40,
      transaction_date |-> StartDay - 5]}

(* Each run works on one pillar: creates go to the pillar whose tables     *)
(* hold rows (to any pillar while the database is empty).                  *)
Pillars ==
    [financial |-> {"transactions"},
     productivity |-> {"tasks", "distractions"},
     health |-> {"biometrics", "sleep_records"},
     worklife |-> {"work_sessions", "boundaries"}]

PillarInUse(p) == \A t \in Tables \ Pillars[p] : db[t] = {}

DashCreate ==
    \E u \in Users :
        /\ TotalRows(db) < MaxRecords
        /\ \/ /\ PillarInUse("financial")
              /\ \E b \in DashTransactions : create_transaction(u, b)
           \/ /\ PillarInUse("productivity")
              /\ \/ create_task(u, [status |-> "todo"])
                 \/ create_distraction(u, [timestamp |-> StartDay,
                                           impact |-> 5])
           \/ /\ PillarInUse("health")
              /\ \/ create_sleep(u, [sleep_date |-> StartDay - 1,
                                     total_hours |-> 9, sleep_quality |-> 8])
                 \/ create_biometric(u, [measurement_date |-> StartDay,
                                         weight |-> <<70>>, height |-> <<175>>,
                                         bmi |-> None,
                                         blood_pressure_systolic |-> <<118>>,
                                         heart_rate |-> None])
           \/ /\ PillarInUse("worklife")
              /\ \/ \E b \in {x \in WorkSessionBodies :
                                 Hour(x.start_time) >= 18} :
                       create_work_session(u, b)
                 \/ create_boundary(u, [boundary_type |-> "work_hours",
                                        importance |-> 3])

DashUpdate ==
    \E u \in Users, id \in Ids :
        \/ update_transaction(u, id, [amount |-> <<60>>])
        \/ update_task(u, id, [status |-> <<"completed">>])

DashDelete ==
    \E u \in Users, id \in Ids : delete_transaction(u, id)

DashRead ==
    \E u \in Users :
        \/ get_financial_dashboard(u)
        \/ calculate_financial_health_score(u)
        \/ get_productivity_dashboard(u, 30)
        \/ get_health_dashboard(u)
        \/ get_dashboard(u, 30)

NextDash == DashCreate \/ DashUpdate \/ DashDelete \/ DashRead

SpecDash == Init /\ [][NextDash]_vars

DashboardOps ==
    {"get_financial_dashboard", "get_productivity_dashboard",
     "get_health_dashboard", "get_dashboard"}

(* C12: a request to a dashboard endpoint (financial, health, work-life,   *)
(* productivity) leaves every stored record unchanged: no record is        *)
(* created, updated or deleted by it.                                      *)
C12_DashboardReadOnly == [][resp'.op \in DashboardOps => db' = db]_vars

(* a dashboard answered for a user who holds work sessions, over a full    *)
(* database                                                                *)
C12_Witness ==
    /\ resp.op \in DashboardOps
    /\ resp.status = 200
    /\ TotalRows(db) = MaxRecords
    /\ \E r \in db.work_sessions : r.user_id = resp.user

(* the requester's rows of a table                                         *)
Mine(t) == {r \in db[t] : r.user_id = resp.user}

(* sum of the amounts of the given type among rows                         *)
AmountOf(rows, type) ==
    SumOver({r \in rows : r.transaction_type = type}, "amount")

(* what each response must show of the records stored when it was given    *)
C13_Reflects ==
    /\ (resp.op = "get_productivity_dashboard" /\ resp.status = 200) =>
        LET tasks == {r \in Mine("tasks") :
                         r.created_at >= now - resp.req.days}
        IN  /\ resp.body.tasks_total = Cardinality(tasks)
            /\ resp.body.tasks_completed =
                   Cardinality({r \in tasks : r.status = "completed"})
            /\ resp.body.context_switches =
                   Cardinality({r \in Mine("distractions") :
                                   r.timestamp >= now - resp.req.days})
    /\ (resp.op = "get_financial_dashboard" /\ resp.status = 200) =>
        LET month == {r \in Mine("transactions") :
                         r.transaction_date >= MonthStart(now)}
        IN  /\ resp.body.current_balance =
                   AmountOf(month, "income") - AmountOf(month, "expense")
            /\ resp.body.net_worth =
                   AmountOf(Mine("transactions"), "income")
                   - AmountOf(Mine("transactions"), "expense")
    /\ (resp.op = "calculate_financial_health_score" /\ resp.status = 200) =>
        LET recent == {r \in Mine("transactions") :
                          r.transaction_date >= now - 90}
        IN  /\ AmountOf(recent, "income") = 0 =>
                   resp.body.breakdown.savings_rate.score = 0
            /\ (AmountOf(recent, "income") > 0
                /\ AmountOf(recent, "expense") = 0) =>
                   resp.body.breakdown.savings_rate.score = 3000
    /\ (resp.op = "get_health_dashboard" /\ resp.status = 200) =>
        /\ resp.body.sleep.nights_tracked =
               Cardinality({r \in Mine("sleep_records") :
                               r.sleep_date >= now - 7})
        /\ IsNone(resp.body.biometrics.last_measurement)
               <=> Mine("biometrics") = {}
    /\ (resp.op = "get_dashboard" /\ resp.status = 200) =>
        /\ resp.body.total_work_hours =
               SumOver({r \in Mine("work_sessions") :
                           /\ r.start_time >= utcnow - resp.req.days * 24
                           /\ r.end_time <= utcnow}, "duration_hours")
        /\ resp.body.active_boundaries =
               Cardinality({r \in Mine("boundaries") :
                               r.is_active = <<TRUE>>})

(* the same request repeated with no write in between and the same clock   *)
(* value is answered the same                                              *)
C13_SameAnswer ==
    (/\ resp.op \in DashboardOps \cup {"calculate_financial_health_score"}
     /\ resp'.op = resp.op
     /\ resp'.user = resp.user
     /\ resp'.req = resp.req
     /\ db' = db
     /\ now' = now) => resp'.body = resp.body

(* C13: every dashboard or score response is computed only from the        *)
(* records stored at the time of the request: after any committed create,  *)
(* update or delete the next dashboard request reflects it, and two        *)
(* requests with no write in between and the same clock value return equal *)
(* responses.                                                              *)
C13_Recomputed == []C13_Reflects /\ [][C13_SameAnswer]_vars

(* a productivity dashboard that shows a create and a later update         *)
C13_Witness ==
    /\ resp.op = "get_productivity_dashboard"
    /\ resp.status = 200
    /\ resp.body.tasks_total = 2
    /\ resp.body.tasks_completed = 1

----------------------------------------------------------------------------
(* Specification SpecBudget: budgets created, updated, deleted and         *)
(* imported by two users in two categories.                                *)

BudgetRequests ==
    {[category |-> "food", amount_limit |-> 100],
     [category |-> "housing", amount_limit |-> 900],
     [category |-> "food", amount_limit |-> 0]}

BudgetActivations == {[is_active |-> <<0>>], [is_active |-> <<1>>]}

BudgetBackups ==
    {Backup("budgets", [category |-> "food", amount_limit |-> 100]),
     Backup("budgets", [category |-> "housing", amount_limit |-> 900,
                        is_active |-> <<0>>])}

BudgetCreates ==
    \E u \in Users, b \in BudgetRequests :
        /\ TotalRows(db) < MaxRecords
        /\ create_budget(u, b)

BudgetEdits ==
    \E u \in Users, id \in Ids, b \in BudgetActivations :
        update_budget(u, id, b)

BudgetDeletes == \E u \in Users, id \in Ids : delete_budget(u, id)

BudgetImports ==
    \E u \in Users, data \in BudgetBackups :
        /\ TotalRows(db) + Len(data.entries) <= MaxRecords
        /\ import_from_json(u, data)

NextBudget == BudgetCreates \/ BudgetEdits \/ BudgetDeletes \/ BudgetImports

SpecBudget == Init /\ [][NextBudget]_vars

ActiveBudgets(d, u, category) ==
    {r \in d.budgets :
        r.user_id = u /\ r.category = category /\ r.is_active = <<1>>}

C15_OneActiveBudget ==
    \A u \in Users, c \in TransactionCategory :
        Cardinality(ActiveBudgets(db, u, c)) <= 1

----------------------------------------------------------------------------
(* api/endpoints/preferences.py: GET, POST, PUT, DELETE /preferences       *)
(* The handlers are plain functions, which the framework runs on worker    *)
(* threads: several requests are in flight at once.  Each handler is two   *)
(* steps, its first query and, when it goes on to write, its commit; the   *)
(* commit is checked by the database against the rows stored by then.      *)
(* A UserPreferences row is [id, user_id, theme]; every field of the       *)
(* schemas has a default, and the bodies of the model are valid.           *)

PreferencesOf(d, u) == {r \in d.user_preferences : r.user_id = u}

Free(s) == IsNone(pending[s])

(* the handler goes on to its commit                                       *)
GoOn(s, op, u, req, existing) ==
    /\ pending' = [pending EXCEPT ![s] =
                       <<[op |-> op, user |-> u, req |-> req,
                          existing |-> existing]>>]
    /\ UNCHANGED <<db, resp>>

PreferencesFrame == UNCHANGED <<now, requests, clock, passed, http, calc>>

(* a GET that does not create the default row                              *)
get_user_preferences_NotFound(s, u) ==
    /\ Free(s)
    /\ IF PreferencesOf(db, u) # {}
       THEN /\ resp' = Response("get_user_preferences", u,
                           "user_preferences", 0, None, 200,
                           CHOOSE r \in PreferencesOf(db, u) : TRUE)
            /\ UNCHANGED <<db, pending>>
       ELSE Raise("get_user_preferences", u, "user_preferences", 0, None, 404)
            /\ UNCHANGED pending
    /\ PreferencesFrame

get_user_preferences(s, u) ==
    /\ Free(s)
    /\ IF PreferencesOf(db, u) # {}
       THEN /\ resp' = Response("get_user_preferences", u,
                           "user_preferences", 0, None, 200,
                           CHOOSE r \in PreferencesOf(db, u) : TRUE)
            /\ UNCHANGED <<db, pending>>
       ELSE GoOn(s, "get_user_preferences", u, None, None)
    /\ PreferencesFrame

create_user_preferences(s, u, b) ==
    /\ Free(s)
    /\ IF PreferencesOf(db, u) # {}
       THEN Raise("create_user_preferences", u, "user_preferences", 0, b, 400)
            /\ UNCHANGED pending
       ELSE GoOn(s, "create_user_preferences", u, b, None)
    /\ PreferencesFrame

update_user_preferences(s, u, b) ==
    /\ Free(s)
    /\ IF PreferencesOf(db, u) = {}
       THEN Raise("update_user_preferences", u, "user_preferences", 0, b, 404)
            /\ UNCHANGED pending
       ELSE GoOn(s, "update_user_preferences", u, b,
                 <<CHOOSE r \in PreferencesOf(db, u) : TRUE>>)
    /\ PreferencesFrame

delete_user_preferences(s, u) ==
    /\ Free(s)
    /\ IF PreferencesOf(db, u) = {}
       THEN Raise("delete_user_preferences", u, "user_preferences", 0, None,
                  404)
            /\ UNCHANGED pending
       ELSE GoOn(s, "delete_user_preferences", u, None,
                 <<CHOOSE r \in PreferencesOf(db, u) : TRUE>>)
    /\ PreferencesFrame

(* db.add(UserPreferences(user_id=..., fields)); db.commit(): user_id is   *)
(* unique=True, a second row of the user fails the INSERT (IntegrityError) *)
CommitInsert(p, row) ==
    IF PreferencesOf(db, p.user) # {}
    THEN /\ resp' = Response(p.op, p.user, "user_preferences", 0, p.req,
                        sqlalchemy_exception_handler(TRUE), None)
         /\ UNCHANGED db
    ELSE LET new == [id |-> NextId(db.user_preferences),
                     user_id |-> p.user] @@ row
         IN  /\ db' = [db EXCEPT !.user_preferences = @ \cup {new}]
             /\ resp' = Response(p.op, p.user, "user_preferences", new.id,
                            p.req, 200, new)

(* setattr(existing, ...); db.commit(): an UPDATE by primary key that      *)
(* matches no row raises StaleDataError, a SQLAlchemyError                 *)
CommitUpdate(p) ==
    LET old == p.existing[1]
    IN  IF \E r \in db.user_preferences : r.id = old.id
        THEN LET row == CHOOSE r \in db.user_preferences : r.id = old.id
                 new == [row EXCEPT !.theme = p.req.theme]
             IN  /\ db' = [db EXCEPT
                             !.user_preferences = (@ \ {row}) \cup {new}]
                 /\ resp' = Response(p.op, p.user, "user_preferences",
                                new.id, p.req, 200, new)
        ELSE /\ resp' = Response(p.op, p.user, "user_preferences", old.id,
                            p.req, sqlalchemy_exception_handler(FALSE), None)
             /\ UNCHANGED db

(* db.delete(preferences); db.commit(): a DELETE by primary key that       *)
(* matches no row only warns.  The key is the one read by the lookup: when *)
(* that row is gone and its key was handed out again (NextId), the row     *)
(* that holds the key now is the one deleted.                              *)
CommitDelete(p) ==
    /\ db' = [db EXCEPT !.user_preferences =
                  {r \in @ : r.id # p.existing[1].id}]
    /\ resp' = Response(p.op, p.user, "user_preferences", p.existing[1].id,
                        None, 200, None)

Commit(s) ==
    /\ ~Free(s)
    /\ LET p == pending[s][1]
       IN  CASE p.op = "get_user_preferences" ->
                    CommitInsert(p, [theme |-> "light"])
             [] p.op = "create_user_preferences" -> CommitInsert(p, p.req)
             [] p.op = "update_user_preferences" -> CommitUpdate(p)
             [] p.op = "delete_user_preferences" -> CommitDelete(p)
    /\ pending' = [pending EXCEPT ![s] = None]
    /\ PreferencesFrame

PreferencesBodies == {[theme |-> "light"], [theme |-> "dark"]}

PreferencesUpdates == {[theme |-> "auto"]}

PreferencesGet == \E s \in Slots, u \in Users : get_user_preferences(s, u)

PreferencesPost ==
    \E s \in Slots, u \in Users, b \in PreferencesBodies :
        create_user_preferences(s, u, b)

PreferencesPut ==
    \E s \in Slots, u \in Users, b \in PreferencesUpdates :
        update_user_preferences(s, u, b)

PreferencesDelete ==
    \E s \in Slots, u \in Users : delete_user_preferences(s, u)

PreferencesCommit ==
    \E s \in Slots :
        /\ NextId(db.user_preferences) <= MaxPreferencesId
        /\ Commit(s)

NextPreferences ==
    \/ PreferencesGet \/ PreferencesPost \/ PreferencesPut
    \/ PreferencesDelete \/ PreferencesCommit

SpecPreferences == Init /\ [][NextPreferences]_vars

(* the request that went on to its commit in this step, if any             *)
Started == {pending'[s][1] : s \in {x \in Slots : Free(x) /\ pending'[x] # None}}

C16_OneRow == \A u \in Users : Cardinality(PreferencesOf(db, u)) <= 1

C16_Answers ==
    /\ \A p \in Started :
          /\ db' = db
          /\ p.op \in {"get_user_preferences", "create_user_preferences"}
                => PreferencesOf(db, p.user) = {}
          /\ p.op \in {"update_user_preferences", "delete_user_preferences"}
                => PreferencesOf(db, p.user) # {}
    /\ resp'.status = 400 =>
          /\ resp'.op = "create_user_preferences"
          /\ PreferencesOf(db, resp'.user) # {}
          /\ db' = db
    /\ resp'.status = 404 =>
          /\ resp'.op \in {"update_user_preferences",
                           "delete_user_preferences"}
          /\ PreferencesOf(db, resp'.user) = {}
          /\ db' = db
    /\ (resp'.op = "get_user_preferences" /\ resp' # resp) =>
          /\ PreferencesOf(db', resp'.user) # {}
          /\ resp'.status = 200 => resp'.body \in PreferencesOf(db', resp'.user)
          /\ (resp'.status = 200 /\ PreferencesOf(db, resp'.user) = {}) =>
                resp'.body.theme = "light"
    /\ \A u \in Users :
          (PreferencesOf(db, u) # {} /\ PreferencesOf(db', u) = {}) =>
              /\ resp'.op = "delete_user_preferences"
              /\ resp'.status = 200

----------------------------------------------------------------------------
(* core/security_middleware.py: what the rate limiter leaves alone         *)

PollSeconds == 30   \* seconds between two bursts of the sending client

(* time.time() moves on by half a window                                   *)
Poll ==
    /\ clock + PollSeconds <= MaxClock
    /\ clock' = clock + PollSeconds
    /\ UNCHANGED <<db, now, resp, requests, passed, http, calc, pending>>

(* one client that sends whenever it likes                                 *)
Burst == \E path \in Paths : Request(Busy, path)

NextQuota == Burst \/ Poll

SpecQuota == Init /\ [][NextQuota]_vars

(* a step that handled a request: time stood still and http holds it       *)
Dispatched == clock' = clock /\ http'.path # "none"

(* the admitted requests of ip that are younger than 60 seconds            *)
Young(ip) ==
    Cardinality({i \in DOMAIN passed[ip] : clock - passed[ip][i] < 60})

(* C17: a request to /health, /, /docs or /openapi.json is never answered  *)
(* 429 and reaches the application; it leaves self.requests as it was, so  *)
(* no address is nearer to a rejection after it than before it.            *)
C17_ExemptPaths ==
    [][(Dispatched /\ http'.path \in {"/health", "/", "/docs", "/openapi.json"})
       => (/\ http'.status # 429
           /\ http'.reached_app
           /\ requests' = requests
           /\ passed' = passed
           /\ \A ip \in IPs, path \in Paths :
                 RateLimitExceeded(ip, path)' = RateLimitExceeded(ip, path))]_vars

(* C17 witness: the health check was answered 200 for an address whose     *)
(* record is full, after that address had been refused.                    *)
C17_Witness ==
    /\ http.path = "/health"
    /\ http.status = 200
    /\ http.ip = Busy
    /\ Len(RequestsOf(Busy)) = requests_per_minute
    /\ RateLimitExceeded(Busy, "/api/v1/financial/transactions")

(* C18: a request answered 429 adds no timestamp to self.requests (the     *)
(* record of its address is the pruned old record, every other record is   *)
(* untouched), and a request to a limited path is answered 429 exactly     *)
(* when requests_per_minute admitted requests of its address are younger   *)
(* than 60 seconds: with fewer it is admitted, whatever was refused before.*)
C18_RejectedNotRecorded ==
    [][(Dispatched /\ http'.path \notin ExemptPaths /\ http' # http)
       => (/\ http'.status = 429
              => (/\ requests'[http'.ip] = Prune(RequestsOf(http'.ip), clock)
                  /\ \A ip \in DOMAIN requests \ {http'.ip} :
                        requests'[ip] = requests[ip]
                  /\ passed' = passed)
           /\ http'.status = 429 <=> Young(http'.ip) >= requests_per_minute
           /\ Young(http'.ip) < requests_per_minute
              => (/\ http'.reached_app
                  /\ passed'[http'.ip] = Append(passed[http'.ip], clock)))]_vars

(* C18 witness: the client was refused in the first minute and is admitted *)
(* again at second 60, when only the requests of second 30 are still young.*)
C18_Witness ==
    /\ clock = 60
    /\ http.status = 200
    /\ http.path \notin ExemptPaths
    /\ http.time = 60
    /\ \E i \in DOMAIN passed[Busy] : passed[Busy][i] = 0
    /\ \E i \in DOMAIN passed[Busy] : passed[Busy][i] = 30
    /\ Young(Busy) < Len(passed[Busy])
    /\ Len(passed[Busy]) > requests_per_minute

----------------------------------------------------------------------------
(* api/endpoints/productivity.py: the completion stamp of a task           *)

MaxDays == 2        \* days that pass while the tasks are edited

(* TaskCreate takes any TaskStatus; an invalid one is answered 422         *)
TaskRequests ==
    {[status |-> "todo"], [status |-> "completed"], [status |-> "done"]}

(* model_dump(exclude_unset=True): a body without status has no such key   *)
TaskEdits ==
    {[status |-> <<"completed">>], [status |-> <<"in_progress">>],
     [status |-> None], [notes |-> <<"later">>]}

TaskCreates ==
    \E u \in Users, b \in TaskRequests :
        /\ TotalRows(db) < MaxRecords
        /\ create_task(u, b)

TaskPuts ==
    \E u \in Users, id \in Ids, b \in TaskEdits : update_task(u, id, b)

(* datetime.utcnow() moves on to the next day                              *)
NextDay ==
    /\ now < StartDay + MaxDays
    /\ now' = now + 1
    /\ UNCHANGED <<db, resp, requests, clock, passed, http, calc, pending>>

NextTask == TaskCreates \/ TaskPuts \/ NextDay

SpecTask == Init /\ [][NextTask]_vars

(* every COMPLETED task has a completed_at                                 *)
C19_Completed ==
    \A r \in db.tasks : r.status = "completed" => ~IsNone(r.completed_at)

(* an update to COMPLETED of a task without completed_at stamps the time   *)
(* of the update; a completed_at that is set stays what it is              *)
C19_Stamp ==
    /\ \A r \in db.tasks : \A r2 \in db'.tasks :
          (r2.id = r.id /\ ~IsNone(r.completed_at))
              => r2.completed_at = r.completed_at
    /\ (/\ now' = now
        /\ resp'.op = "update_task"
        /\ resp'.status = 200
        /\ Has(resp'.req, "status")
        /\ resp'.req.status = <<"completed">>)
       => \A r \in Owned("tasks", resp'.user, resp'.id) :
             IsNone(r.completed_at)
                 => \A r2 \in db'.tasks :
                       r2.id = r.id => r2.completed_at = <<now>>

(* C19: after any sequence of create_task and update_task requests every   *)
(* task whose status is COMPLETED has a non-null completed_at; an update   *)
(* that moves a task to COMPLETED while completed_at is unset sets it, and *)
(* no later update changes or clears it.                                   *)
C19_CompletedAt == []C19_Completed /\ [][C19_Stamp]_vars

(* the stamping of update_task taken alone                                 *)
C19_StampOnly == [][C19_Stamp]_vars

----------------------------------------------------------------------------
(* api/endpoints/work_life.py: create_work_session and the violation count *)

(* the session starts at 18:00 or later, or ends at 22:00 or later         *)
AfterHours(b) == Hour(b.start_time) >= 18 \/ Hour(b.end_time) >= 22

(* the boundaries a work session of user u counts against                  *)
Counted(r, u) ==
    /\ r.user_id = u
    /\ r.is_active = <<TRUE>>
    /\ r.boundary_type = "work_hours"

(* C20: create_work_session stores the work session, and when the start    *)
(* hour is >= 18 or the end hour is >= 22 it adds exactly 1 to the         *)
(* violation_count of every active work_hours boundary of the requester;   *)
(* every other boundary, and every boundary when the session lies outside  *)
(* those hours, is left as it was.                                         *)
C20_WorkSession ==
    [][(resp'.op = "create_work_session" /\ WorkSessionCreate(resp'.req))
       => LET u == resp'.user
              b == resp'.req
              stored == db'.work_sessions \ db.work_sessions
          IN  /\ resp'.status = 200
              /\ db.work_sessions \subseteq db'.work_sessions
              /\ Cardinality(stored) = 1
              /\ \A s \in stored :
                    /\ s.user_id = u
                    /\ \A f \in DOMAIN b : s[f] = b[f]
                    /\ resp'.body = s
              /\ db'.boundaries =
                    {IF AfterHours(b) /\ Counted(r, u)
                     THEN [r EXCEPT !.violation_count = r.violation_count + 1]
                     ELSE r : r \in db.boundaries}
              /\ \A t \in Tables \ {"work_sessions", "boundaries"} :
                    db'[t] = db[t]]_vars

(* C20 witness: an evening session was stored and the requester's active   *)
(* work_hours boundary counts one violation.                               *)
C20_Witness ==
    /\ resp.op = "create_work_session"
    /\ resp.status = 200
    /\ AfterHours(resp.req)
    /\ resp.body \in db.work_sessions
    /\ \E r \in db.boundaries : Counted(r, resp.user) /\ r.violation_count = 1

----------------------------------------------------------------------------
(* api/endpoints/work_life.py: create_work_session on two worker threads   *)
(* create_work_session is a plain function, so two requests run at once,   *)
(* each with its own session.  The handler commits the work session, then  *)
(* log_boundary_violation reads the boundary (a SELECT), adds 1 in Python  *)
(* and commits the new value (an UPDATE of the one changed column): three  *)
(* steps, between which the other request may take its own.                *)

(* the work session is committed; the violations found are still to log    *)
BeginWorkSession(s, u, b) ==
    LET violations ==
            check_work_boundary_violations(u, b.start_time, b.end_time)
        new == [id |-> NextId(db.work_sessions), user_id |-> u] @@ b
    IN  /\ Free(s)
        /\ db' = [db EXCEPT !.work_sessions = @ \cup {new}]
        /\ IF violations = {}
           THEN /\ resp' = RowResponse("create_work_session", u,
                               "work_sessions", new.id, b, 200, new)
                /\ UNCHANGED pending
           ELSE /\ pending' = [pending EXCEPT ![s] =
                                  <<[op |-> "create_work_session", user |-> u,
                                     req |-> b, row |-> new,
                                     violations |-> violations,
                                     read |-> None]>>]
                /\ UNCHANGED resp
        /\ PreferencesFrame

(* boundary = db.query(Boundary).filter(Boundary.id == boundary_id).first() *)
ReadBoundary(s) ==
    /\ ~Free(s)
    /\ pending[s][1].op = "create_work_session"
    /\ IsNone(pending[s][1].read)
    /\ LET p == pending[s][1]
           boundary_id == CHOOSE x \in p.violations :
                              \A y \in p.violations : x <= y
           boundary == CHOOSE r \in db.boundaries : r.id = boundary_id
       IN  pending' = [pending EXCEPT ![s] =
                          <<[p EXCEPT !.read =
                                <<[id |-> boundary_id,
                                   violation_count |->
                                       boundary.violation_count]>>]>>]
    /\ UNCHANGED <<db, resp>>
    /\ PreferencesFrame

(* boundary.violation_count += 1; db.commit(): the value read plus one is  *)
(* written; after the last violation the handler returns the work session  *)
WriteBoundary(s) ==
    /\ ~Free(s)
    /\ pending[s][1].op = "create_work_session"
    /\ ~IsNone(pending[s][1].read)
    /\ LET p == pending[s][1]
           read == p.read[1]
           left == p.violations \ {read.id}
       IN  /\ db' = [db EXCEPT !.boundaries =
                        {IF r.id = read.id
                         THEN [r EXCEPT !.violation_count =
                                            read.violation_count + 1]
                         ELSE r : r \in @}]
           /\ IF left = {}
              THEN /\ pending' = [pending EXCEPT ![s] = None]
                   /\ resp' = RowResponse("create_work_session", p.user,
                                  "work_sessions", p.row.id, p.req, 200, p.row)
              ELSE /\ pending' = [pending EXCEPT ![s] =
                                     <<[p EXCEPT !.violations = left,
                                                 !.read = None]>>]
                   /\ UNCHANGED resp
    /\ PreferencesFrame

(* the boundaries are set before the first work session is logged          *)
RaceBoundary ==
    \E u \in Users, b \in BoundaryBodies :
        /\ db.work_sessions = {}
        /\ Cardinality(db.boundaries) < MaxRecords
        /\ create_boundary(u, b)

(* only a body that passes WorkSessionCreate reaches the handler           *)
RaceBegin ==
    \E s \in Slots, u \in Users :
      \E b \in {x \in WorkSessionBodies : WorkSessionCreate(x)} :
        /\ Cardinality(db.work_sessions) < MaxRecords
        /\ BeginWorkSession(s, u, b)

RaceRead == \E s \in Slots : ReadBoundary(s)

RaceWrite == \E s \in Slots : WriteBoundary(s)

NextWorkRace == RaceBoundary \/ RaceBegin \/ RaceRead \/ RaceWrite

SpecWorkRace == Init /\ [][NextWorkRace]_vars

(* C21: when violating create_work_session requests of one user run at     *)
(* the same time no increment is lost: once all of them have finished,     *)
(* the violation_count of each boundary they affect has grown (from 0) by  *)
(* exactly the number of violating sessions stored.                        *)
C21_NoLostIncrement ==
    (\A s \in Slots : Free(s))
        => \A r \in db.boundaries :
              Counted(r, r.user_id)
                  => r.violation_count =
                         Cardinality({x \in db.work_sessions :
                                         /\ x.user_id = r.user_id
                                         /\ AfterHours(x)})

----------------------------------------------------------------------------
(* services/export_import_service.py: import_from_csv                      *)
(* A CSV file is the sequence of its data rows, each a record from the     *)
(* header's names to the cells (csv.DictReader).  The cells are text; the  *)
(* model writes a numeral as the number its column stores it as.           *)

(* _import_row: the three (pillar, entity_type) pairs that have a model    *)
CsvModel(pillar, entity_type) ==
    CASE pillar = "financial" /\ entity_type = "transactions" -> "transactions"
      [] pillar = "health" /\ entity_type = "meals" -> "meals"
      [] pillar = "productivity" /\ entity_type = "tasks" -> "tasks"
      [] OTHER -> "unsupported"

CsvEntries(csv_data, pillar, entity_type) ==
    [i \in DOMAIN csv_data |->
        [table |-> CsvModel(pillar, entity_type), record |-> csv_data[i]]]

(* an import that gives up at the first row that fails                     *)
import_from_csv_GiveUp(u, csv_data, pillar, entity_type, overwrite) ==
    LET entries == CsvEntries(csv_data, pillar, entity_type)
        failed == {i \in DOMAIN entries : ~Constructible(entries[i])}
        upto == IF failed = {} THEN Len(entries)
                ELSE (CHOOSE i \in failed : \A j \in failed : i <= j) - 1
        read == SubSeq(entries, 1, upto)
        success == ~CommitFails(read)
    IN  /\ db' = IF success THEN AddAll(db, u, read) ELSE db
        /\ resp' = Response("import_from_csv", u, "none", 0,
                       [csv_data |-> csv_data, pillar |-> pillar,
                        entity_type |-> entity_type, overwrite |-> overwrite],
                       200,
                       [success |-> success, records_imported |-> upto,
                        records_failed |-> Len(entries) - upto])
        /\ RouteFrame

(* every row is tried: a row whose model cannot be built is counted as     *)
(* failed, the others are added; one commit stores them all or, when it    *)
(* fails, none (rollback).  overwrite is passed on and never read.         *)
import_from_csv(u, csv_data, pillar, entity_type, overwrite) ==
    LET entries == CsvEntries(csv_data, pillar, entity_type)
        constructed == SelectSeq(entries, Constructible)
        success == ~CommitFails(entries)
    IN  /\ db' = IF success THEN AddAll(db, u, entries) ELSE db
        /\ resp' = Response("import_from_csv", u, "none", 0,
                       [csv_data |-> csv_data, pillar |-> pillar,
                        entity_type |-> entity_type, overwrite |-> overwrite],
                       200,
                       [success |-> success,
                        records_imported |-> Len(constructed),
                        records_failed |->
                            Len(entries) - Len(constructed)])
        /\ RouteFrame

(* api/endpoints/export_import.py: import_data_json hands overwrite to     *)
(* import_from_json, which never reads it                                  *)
import_data_json(u, data, overwrite) == import_from_json(u, data)

CsvRow == [transaction_type |-> "expense", category |-> "food",
           amount |-> 40, transaction_date |-> StartDay - 5]

(* a row under the header of get_csv_template: date is not a column        *)
CsvTemplateRow == [transaction_type |-> "expense", category |-> "food",
                   amount |-> 40, date |-> StartDay - 5]

(* a short row: the cell of transaction_date is missing                    *)
CsvShortRow == [transaction_type |-> "expense", category |-> "food",
                amount |-> 40]

(* an exported row of the other account                                    *)
CsvForeignRow == [id |-> 1, user_id |-> 2] @@ CsvRow

CsvFiles ==
    {<<>>, <<CsvRow>>, <<CsvForeignRow>>, <<CsvTemplateRow, CsvRow>>,
     <<CsvRow, CsvTemplateRow>>, <<CsvRow, CsvShortRow>>,
     <<[status |-> "completed"]>>}

CsvTargets ==
    {<<"financial", "transactions">>, <<"productivity", "tasks">>,
     <<"financial", "budgets">>}

JsonBackups ==
    {Backup("transactions", CsvForeignRow),
     Backup("tasks", [id |-> 1, user_id |-> 2, status |-> "todo"]),
     Backup("transactions", CsvShortRow),
     Backup("boundary_violations", [boundary_id |-> 1, impact |-> 5]),
     [export_metadata |-> FALSE,
      entries |-> <<[table |-> "transactions", record |-> CsvRow]>>]}

(* the rows that are there before an import                                *)
ImportSeed ==
    \E u \in Users :
        /\ TotalRows(db) < MaxRecords
        /\ \/ create_transaction(u, CsvRow)
           \/ create_task(u, [status |-> "todo"])

ImportCsv ==
    \E u \in Users, csv_data \in CsvFiles, target \in CsvTargets :
      \E overwrite \in BOOLEAN :
        /\ TotalRows(db) + Len(csv_data) <= MaxRecords
        /\ import_from_csv(u, csv_data, target[1], target[2], overwrite)

ImportJson ==
    \E u \in Users, data \in JsonBackups, overwrite \in BOOLEAN :
        /\ TotalRows(db) + Len(data.entries) <= MaxRecords
        /\ import_data_json(u, data, overwrite)

NextImport == ImportSeed \/ ImportCsv \/ ImportJson

SpecImport == Init /\ [][NextImport]_vars

(* the rows of d in every table, each with the name of its table           *)
AllRows(d) == UNION {{<<t, r>> : r \in d[t]} : t \in Tables}

(* C22: import_from_csv returns records_imported + records_failed equal    *)
(* to the number of data rows; a failing row does not keep the rows before *)
(* and after it from being imported (the count is that of the rows that    *)
(* import when taken alone); with success = true exactly records_imported  *)
(* new records are stored, with success = false none.                      *)
C22_ImportCsv ==
    [][resp'.op = "import_from_csv" =>
          LET r == resp'.body
              csv_data == resp'.req.csv_data
              alone == {i \in DOMAIN csv_data :
                           Constructible([table |->
                                              CsvModel(resp'.req.pillar,
                                                       resp'.req.entity_type),
                                          record |-> csv_data[i]])}
          IN  /\ r.records_imported + r.records_failed = Len(csv_data)
              /\ r.records_imported = Cardinality(alone)
              /\ AllRows(db) \subseteq AllRows(db')
              /\ r.success =>
                    Cardinality(AllRows(db') \ AllRows(db)) = r.records_imported
              /\ ~r.success => db' = db]_vars

(* C22 witness: of two rows the first failed and the second was stored     *)
C22_Witness ==
    /\ resp.op = "import_from_csv"
    /\ resp.body.success
    /\ resp.body.records_imported = 1
    /\ resp.body.records_failed = 1
    /\ resp.req.csv_data[1] = CsvTemplateRow
    /\ \E r \in db.transactions :
          r.user_id = resp.user /\ r.amount = CsvRow.amount

----------------------------------------------------------------------------
(* services/export_import_service.py: export_all_data_json                 *)

(* the models the six _export_*_data functions filter by Model.user_id,    *)
(* in the order they are queried                                           *)
ExportedModels ==
    <<"transactions", "budgets", "financial_goals", "meals", "biometrics",
      "exercises", "work_sessions", "meetings", "boundary_violations",
      "tasks", "deep_work_sessions", "distractions", "productivity_goals",
      "mood_entries", "sleep_entries", "correlations", "recommendations">>

RECURSIVE ExportEntries(_, _)
(* [self._model_to_dict(x) for x in query.all()] for each model in turn:   *)
(* every column of the row, id and user_id included                        *)
ExportEntries(u, models) ==
    IF models = <<>> THEN <<>>
    ELSE LET t == Head(models)
             rows == IF t \in Tables
                     THEN All({r \in db[t] : r.user_id = u}) ELSE <<>>
         IN  [i \in DOMAIN rows |-> [table |-> t, record |-> rows[i]]]
                 \o ExportEntries(u, Tail(models))

(* Model.user_id raises AttributeError for a model without that column;    *)
(* None stands for the exception                                           *)
export_all_data_json(u) ==
    IF \E i \in DOMAIN ExportedModels : ~HasUserId(ExportedModels[i])
    THEN None
    ELSE <<[export_metadata |-> TRUE,
            entries |-> ExportEntries(u, ExportedModels)]>>

(* api/endpoints/export_import.py: except Exception -> HTTPException(500)  *)
export_data_json(u) ==
    /\ IF IsNone(export_all_data_json(u))
       THEN Raise("export_data_json", u, "none", 0, None, 500)
       ELSE /\ resp' = Response("export_data_json", u, "none", 0, None, 200,
                                export_all_data_json(u)[1])
            /\ UNCHANGED db
    /\ RouteFrame

ExportJson == \E u \in Users : export_data_json(u)

NextExport == ImportSeed \/ ExportJson \/ ImportJson \/ ImportCsv

SpecExport == Init /\ [][NextExport]_vars

(* what a stored row and its re-imported copy must share: all but the id   *)
SameButId(r, r2) ==
    /\ DOMAIN r = DOMAIN r2
    /\ \A f \in DOMAIN r \ {"id"} : r[f] = r2[f]

(* the export of user u, imported by u into an empty account, comes back   *)
(* whole: no record fails and every exported row has its copy              *)
RoundTrip(u, data) ==
    LET d == AddAll(EmptyDb, u, data.entries)
    IN  /\ data.export_metadata
        /\ ~CommitFails(data.entries)
        /\ \A i \in DOMAIN data.entries : Constructible(data.entries[i])
        /\ \A t \in Tables : \A r \in db[t] :
              r.user_id = u => \E r2 \in d[t] : SameButId(r, r2)

(* the two halves of the round trip, as one step of either kind           *)
C24_Step ==
    /\ resp'.op = "export_data_json" =>
          /\ resp'.status = 200
          /\ RoundTrip(resp'.user, resp'.body)
    /\ (resp'.op = "import_from_json" /\ ~resp'.req.export_metadata) =>
          /\ ~resp'.body.success
          /\ resp'.body.records_imported = 0
          /\ db' = db

(* C24: for every stored state export_all_data_json succeeds, and its      *)
(* result imported into an empty account gives success = true with         *)
(* records_failed = 0 and recreates every exported record with the same    *)
(* field values except id; a file without export_metadata is answered      *)
(* success = false and nothing is imported.                                *)
C24_RoundTrip == [][C24_Step]_vars

----------------------------------------------------------------------------
(* services/notification_service.py: send_notification and                 *)
(* mark_notification_read.  A NotificationLog row is [id, user_id,         *)
(* notification_type, category, status, read_at]; a UserPreferences row    *)
(* holds the five switches _is_notification_enabled reads.                 *)

(* preferences that let everything through                                 *)
is_notification_enabled_Always(preferences, notification_type, category) ==
    TRUE

(* _is_notification_enabled; preferences is None or <<the row>>            *)
is_notification_enabled(preferences, notification_type, category) ==
    IF IsNone(preferences) THEN TRUE
    ELSE LET p == preferences[1]
         IN  IF notification_type = "email" /\ ~p.enable_email_notifications
             THEN FALSE
             ELSE IF notification_type = "push"
                     /\ ~p.enable_push_notifications
             THEN FALSE
             ELSE IF category = "briefing" /\ ~p.daily_briefing_enabled
             THEN FALSE
             ELSE IF category = "alert"
             THEN p.alert_critical_enabled \/ p.alert_high_enabled
             ELSE TRUE

(* _create_notification_log: add, commit, refresh                          *)
create_notification_log(u, notification_type, category, status, attempt) ==
    LET log == [id |-> NextId(db.notification_logs), user_id |-> u,
                notification_type |-> notification_type,
                category |-> category, status |-> status, read_at |-> None]
    IN  /\ db' = [db EXCEPT !.notification_logs = @ \cup {log}]
        /\ resp' = Response("send_notification", u, "notification_logs",
                       log.id,
                       [notification_type |-> notification_type,
                        category |-> category],
                       200, [log |-> log, attempt |-> attempt])

(* attempt is the stub that printed: _send_email_notification,             *)
(* _send_push_notification or none                                         *)
send_notification(u, notification_type, category) ==
    LET rows == PreferencesOf(db, u)
        preferences == IF rows = {} THEN None
                       ELSE <<CHOOSE r \in rows : TRUE>>
    IN  /\ IF ~is_notification_enabled(preferences, notification_type,
                                       category)
           THEN create_notification_log(u, notification_type, category,
                                        "skipped", "none")
           ELSE create_notification_log(u, notification_type, category,
                    "sent",
                    IF notification_type \in {"email", "push"}
                    THEN notification_type ELSE "none")
        /\ RouteFrame

(* api/endpoints/preferences.py: 404 when the service returns None         *)
mark_notification_read(u, notification_id) ==
    /\ IF Owned("notification_logs", u, notification_id) = {}
       THEN Raise("mark_notification_read", u, "notification_logs",
                  notification_id, None, 404)
       ELSE LET old == CHOOSE r \in Owned("notification_logs", u,
                                          notification_id) : TRUE
                new == [old EXCEPT !.read_at = <<now>>, !.status = "read"]
            IN  /\ db' = [db EXCEPT
                            !.notification_logs = (@ \ {old}) \cup {new}]
                /\ resp' = Response("mark_notification_read", u,
                               "notification_logs", notification_id, None,
                               200, new)
    /\ RouteFrame

AllOn == [enable_email_notifications |-> TRUE,
          enable_push_notifications |-> TRUE,
          daily_briefing_enabled |-> TRUE,
          alert_critical_enabled |-> TRUE, alert_high_enabled |-> TRUE]

NotifyBodies ==
    {[AllOn EXCEPT !.alert_critical_enabled = FALSE],
     [AllOn EXCEPT !.enable_email_notifications = FALSE,
                   !.daily_briefing_enabled = FALSE],
     [AllOn EXCEPT !.enable_push_notifications = FALSE,
                   !.alert_critical_enabled = FALSE,
                   !.alert_high_enabled = FALSE]}

(* one request at a time: the first slot carries it                       *)
NotifyPreferences ==
    \E u \in Users, b \in NotifyBodies :
        /\ TotalRows(db) < MaxRecords
        /\ create_user_preferences(1, u, b)

NotifyCommit == TotalRows(db) < MaxRecords /\ Commit(1)

(* the notifications sent: each switch of the preferences is consulted     *)
NotifyKinds ==
    {<<"email", "reminder">>, <<"push", "reminder">>,
     <<"in_app", "briefing">>, <<"in_app", "alert">>,
     <<"in_app", "reminder">>}

NotifySend ==
    \E u \in Users, k \in NotifyKinds :
        /\ TotalRows(db) < MaxRecords
        /\ send_notification(u, k[1], k[2])

NotifyRead == \E u \in Users, id \in Ids : mark_notification_read(u, id)

NextNotify == NotifyPreferences \/ NotifyCommit \/ NotifySend \/ NotifyRead

SpecNotify == Init /\ [][NextNotify]_vars

(* the preferences of user u switch off this type or this category         *)
Disabled(u, notification_type, category) ==
    \E p \in PreferencesOf(db, u) :
        \/ notification_type = "email" /\ ~p.enable_email_notifications
        \/ notification_type = "push" /\ ~p.enable_push_notifications
        \/ category = "briefing" /\ ~p.daily_briefing_enabled
        \/ category = "alert" /\ ~p.alert_critical_enabled
                              /\ ~p.alert_high_enabled

C25_Step ==
    /\ (resp' # resp /\ resp'.op = "send_notification") =>
          /\ db.notification_logs \subseteq db'.notification_logs
          /\ db'.notification_logs \ db.notification_logs = {resp'.body.log}
          /\ resp'.body.log \notin db.notification_logs
          /\ resp'.body.log.user_id = resp'.user
          /\ \A t \in Tables \ {"notification_logs"} : db'[t] = db[t]
          /\ IF Disabled(resp'.user, resp'.req.notification_type,
                         resp'.req.category)
             THEN /\ resp'.body.log.status = "skipped"
                  /\ resp'.body.attempt = "none"
             ELSE resp'.body.log.status = "sent"
    /\ (resp' # resp /\ resp'.op = "mark_notification_read") =>
          /\ \A t \in Tables \ {"notification_logs"} : db'[t] = db[t]
          /\ \A r \in db.notification_logs :
                (r.id # resp'.id \/ r.user_id # resp'.user)
                    => r \in db'.notification_logs
          /\ Cardinality(db'.notification_logs)
                = Cardinality(db.notification_logs)
          /\ resp'.status = 200 =>
                \E r \in db'.notification_logs :
                    /\ r.id = resp'.id /\ r.user_id = resp'.user
                    /\ r.status = "read" /\ ~IsNone(r.read_at)
          /\ resp'.status # 200 => db' = db
    /\ \A r \in db.notification_logs :
          r.status = "read" =>
              \E r2 \in db'.notification_logs :
                  r2.id = r.id /\ r2.status = "read"

(* C25: every send_notification adds exactly one NotificationLog row for   *)
(* the target user, 'skipped' and without a delivery attempt when the      *)
(* user's preferences switch the type or the category off, 'sent'          *)
(* otherwise, also without a preferences row; mark_notification_read       *)
(* changes only a notification of the caller, to status 'read' with        *)
(* read_at set; no step moves a 'read' notification to another status.     *)
C25_Notifications == [][C25_Step]_vars

(* C25 witness: an email to a user whose preferences switch email off was  *)
(* logged as skipped.                                                      *)
C25_Witness ==
    /\ resp.op = "send_notification"
    /\ resp.body.log.status = "skipped"
    /\ resp.req.notification_type = "email"
    /\ resp.body.log \in db.notification_logs
    /\ \E p \in PreferencesOf(db, resp.user) : ~p.enable_email_notifications

====
